---- MODULE Spec2Model ----
(***************************************************************************)
(* A model of the real-time layer of the chat backend:                     *)
(*   chat/access.py        room access predicates                          *)
(*   chat/consumers.py     ChatConsumer (connect, receive, rate limiter)   *)
(*   chat/direct_inbox.py  unread tracker kept in the shared cache         *)
(*                                                                         *)
(* Strings whose content the code inspects (pair keys, message bodies,     *)
(* room slugs) are sequences of one-character strings, so that split,      *)
(* strip, int() and len() are computed and not assumed.                    *)
(*                                                                         *)
(* The module holds one specification per component.  Each specification   *)
(* keeps the variables of the other components at their initial values.    *)
(***************************************************************************)
EXTENDS Integers, Sequences, FiniteSets, TLC

VARIABLES
    \* ---- access predicates (SpecAccess) ----
    acRoom,      \* the Room under test: [slug, kind, direct_pair_key]
    acUser,      \* the user under test: [is_authenticated, id]
    acRows,      \* the ChatRole table: a set of [room, user, role]
    acOp,        \* "none", "can_read" or "can_write": the predicate last applied
    acResult,    \* its result
    \* ---- chat room sessions (SpecChat) ----
    clock,       \* time.time(), in whole seconds
    rooms,       \* the Room table: a set of [slug, kind, direct_pair_key]
    roleRows,        \* the ChatRole table: a set of [room, user, role]
    conn,        \* per connection: status, scope user, room, group, handler position
    rlCache,     \* shared cache, keys rl:chat:<user id>
    messages,    \* the Message table, in insertion order
    mailbox,     \* per connection: events the channel layer has queued for it
    outbox,      \* per connection: frames sent to the client while it is open
    nframes,     \* client frames received so far (bounded by MaxFrames)
    roleEdited,  \* a role row has been edited (at most one edit is modelled)
    rlHist,      \* history: per user, the finished rate checks [now, ok, conn]
    rlOverlap,   \* history: per user, some rate check began while another was in flight
    rlWindows,   \* history: per user, the reset times of the windows started
    \* ---- direct inbox unread state (SpecUnread) ----
    urStore,     \* per user: the cache entry direct:unread:<id>
    urProc,      \* per caller: the call it is in, what it will write, what it returned
    urCalls,     \* calls made so far (bounded by MaxCalls)
    urMarks,     \* history: per user and room, mark_unread calls finished since the
                 \* room was last read or the entry last ran out
    urRaced,     \* history: per user, a call was not alone between its read and write
    \* ---- direct inbox connections and active-room markers (SpecActive) ----
    ibConn,      \* per inbox connection: [status, close_code, user, pc, held]
    ibActive,    \* per user: the cache entry direct:active:<id>
    ibOut,       \* per inbox connection: frames sent to the client
    ibMail,      \* per inbox connection: events the channel layer has queued for it
    ibFrames,    \* client frames received so far (bounded by MaxInboxFrames)
    ibSent,      \* history: per user, events published to the user's inbox topic
    \* ---- presence (SpecPresence, SpecVisible) ----
    prConn,      \* per presence connection: status, scope, group, next touch time
    prUsers,     \* the cache map of online users: username -> entry
    prGuests,    \* the cache map of guests: client ip -> entry
    prMail,      \* per presence connection: events the channel layer has queued
    prOut,       \* per presence connection: the frames sent to the client (as a set)
    prPings,     \* ping frames received so far (bounded by MaxPresencePings)
    prLast,      \* history: the last snapshot taken: [at, online, guests, ..]
    prLeft,      \* history: per username, when its only connection was dropped
                 \* with an abnormal close code, and whether its entry was stored
    \* ---- direct-chat start (SpecDirect); it works on rooms and roleRows ----
    dsReq,       \* per request: position, initiator, target, pair key, slug, attempt,
                 \* the room it holds, created, the error caught
    dsResp,      \* history: the responses given to requests of a signed-in user that
                 \* name an existing user: [initiator, target, status, slug, ..],
                 \* with what the request met on its way and, for a request that
                 \* created the room, the number of the request
    dsStarts,    \* requests received so far (bounded by MaxStarts)
    \* ---- room details (SpecRooms); it works on rooms and roleRows ----
    rdResp,      \* history: the last room_details request and its response
    \* ---- background timers of the connections (SpecTimers) ----
    mono,        \* time.monotonic(), in whole seconds
    \* ---- database rate limiter (SpecBucket) ----
    bkRows,      \* table SecurityRateLimitBucket: a set of [id, scope_key, count, reset_at]
    bkProc,      \* per call of is_limited: position, scope key, now, the bucket it
                 \* read, the row lock it holds, retries, result
    bkTime,      \* timezone.now(), in whole seconds
    bkCalls,     \* calls of is_limited made so far (bounded by MaxBucketCalls)
    bkPassed     \* history: per scope key, the calls that returned False since the
                 \* key's bucket was last created or reset

acVars == <<acRoom, acUser, acRows, acOp, acResult>>

chVars == <<clock, rooms, roleRows, conn, rlCache, messages, mailbox, outbox,
            nframes, roleEdited, rlHist, rlOverlap, rlWindows>>

urVars == <<urStore, urProc, urCalls, urMarks, urRaced>>

ibVars == <<ibConn, ibActive, ibOut, ibMail, ibFrames, ibSent>>

prVars == <<prConn, prUsers, prGuests, prMail, prOut, prPings, prLast, prLeft>>

dsVars == <<dsReq, dsResp, dsStarts>>

rdVars == <<rdResp>>

tmVars == <<mono>>

bkVars == <<bkRows, bkProc, bkTime, bkCalls, bkPassed>>

\* what the actions of one component leave alone
notAccess == <<chVars, urVars, ibVars, prVars, dsVars, rdVars, bkVars, tmVars>>

notChat == <<acVars, urVars, ibVars, prVars, dsVars, rdVars, bkVars, tmVars>>

notUnread == <<acVars, chVars, ibVars, prVars, dsVars, rdVars, bkVars, tmVars>>

vars == <<acRoom, acUser, acRows, acOp, acResult,
          clock, rooms, roleRows, conn, rlCache, messages, mailbox, outbox,
          nframes, roleEdited, rlHist, rlOverlap, rlWindows,
          urStore, urProc, urCalls, urMarks, urRaced,
          ibConn, ibActive, ibOut, ibMail, ibFrames, ibSent,
          prConn, prUsers, prGuests, prMail, prOut, prPings, prLast, prLeft,
          dsReq, dsResp, dsStarts, rdResp, mono,
          bkRows, bkProc, bkTime, bkCalls, bkPassed>>

-----------------------------------------------------------------------------
(* Bounds                                                                  *)

\* longest direct_pair_key drawn
MaxKeyLen == 4

\* SpecChat: client frames received over all chat connections
MaxFrames == 1

\* SpecRate: client frames received over all chat connections
MaxSends == 4

\* SpecUnread: calls of mark_unread, mark_read and get_unread_state
MaxCalls == 4

\* SpecActive: client frames received over all inbox connections
MaxInboxFrames == 3

\* SpecInbox: client frames received over all chat connections
MaxInboxSends == 2

\* SpecActive: time.time() runs from 0 to MaxActiveTime
MaxActiveTime == 2

\* SpecPing: client frames received over all presence connections
MaxPingFrames == 3

\* SpecPing: both clocks run from 0 to MaxPingTime
MaxPingTime == 2

\* SpecOrder: client frames received over all chat connections
MaxOrderSends == 2

\* SpecTouch: ping frames received over both presence connections
MaxTouchPings == 2

\* SpecBucket: calls of is_limited
MaxBucketCalls == 3

\* SpecBucket: timezone.now() runs from 0 to MaxBucketTime
MaxBucketTime == 3

\* settings.AUTH_RATE_LIMIT, scaled down from 10
AUTH_RATE_LIMIT == 2

\* settings.AUTH_RATE_WINDOW, scaled down from 60
AUTH_RATE_WINDOW == 2

\* settings.DIRECT_INBOX_ACTIVE_TTL, scaled down from 90
DIRECT_INBOX_ACTIVE_TTL == 2

\* SpecPresence, SpecVisible: time.time() runs from 0 to MaxPresenceTime
MaxPresenceTime == 3

\* SpecPresence: ping frames received over all presence connections
MaxPresencePings == 1

\* settings.PRESENCE_TTL (40), scaled down
PRESENCE_TTL == 2

\* settings.PRESENCE_GRACE (5), scaled down
PRESENCE_GRACE == 1

\* settings.PRESENCE_TOUCH_INTERVAL (30), scaled down
PRESENCE_TOUCH_INTERVAL == 2

\* SpecDirect: direct_start requests received
MaxStarts == 3

\* settings.CHAT_DIRECT_START_RETRIES (default 3), scaled down
CHAT_DIRECT_START_RETRIES == 2

\* SpecRate: last value of the clock
MaxRateTime == 2

\* settings.CHAT_MESSAGE_MAX_LENGTH (default 1000), scaled down
CHAT_MESSAGE_MAX_LENGTH == 2

\* WS_CONNECT_RATE_LIMIT (60 in settings.py; 1 in the tests of the connect limit)
WS_CONNECT_RATE_LIMIT == 1

\* settings.CHAT_MESSAGE_RATE_LIMIT (default 20), scaled down
CHAT_MESSAGE_RATE_LIMIT == 2

\* settings.CHAT_MESSAGE_RATE_WINDOW (default 10 seconds), scaled down
CHAT_MESSAGE_RATE_WINDOW == 2

\* CHAT_WS_IDLE_TIMEOUT, in seconds (600 in settings.py)
CHAT_WS_IDLE_TIMEOUT == 3

\* the largest reading of time.monotonic()
MaxMono == 11

\* inbox frames (set_active_room, mark_read) received per run of SpecMark
MaxMarkFrames == 2

\* client frames received per run of the timer specifications
MaxIdleFrames == 1

\* _idle_watchdog: interval = max(10, min(60, timeout))
IdlePollFloor == 10

IdlePollCeiling == 60

\* _heartbeat and the inbox and presence watchdogs sleep 5 seconds or more
TimerFloor == 5

\* DIRECT_INBOX_HEARTBEAT and DIRECT_INBOX_IDLE_TIMEOUT (20 and 90 in settings.py)
DIRECT_INBOX_HEARTBEAT == 5

DIRECT_INBOX_IDLE_TIMEOUT == 6

\* PRESENCE_HEARTBEAT and PRESENCE_IDLE_TIMEOUT (20 and 90 in settings.py)
PRESENCE_HEARTBEAT == 5

PRESENCE_IDLE_TIMEOUT == 7

\* the close codes of chat/constants.py for a connection closed as idle
CHAT_CLOSE_IDLE_CODE == 4408

DIRECT_INBOX_CLOSE_IDLE_CODE == 4409

PRESENCE_CLOSE_IDLE_CODE == 4410

-----------------------------------------------------------------------------
(* Strings                                                                 *)

Digits == {"1", "2"}

\* characters a direct_pair_key is drawn from: digits, the separator, a letter
KeyChars == Digits \cup {":", "x"}

\* all sequences over S of length 0..n
SeqsUpTo(S, n) == UNION {[1..k -> S] : k \in 0..n}

\* Room.direct_pair_key is nullable: None is this value (no string equals it)
None == <<"None">>

DigitValue(c) == IF c = "1" THEN 1 ELSE 2

\* int(s) for s over KeyChars: ValueError unless s is a non-empty digit string.
\* (Python's int() also accepts surrounding blanks, a sign and '_' between
\* digits; none of those characters is in KeyChars.)
IntOk(s) == Len(s) > 0 /\ \A i \in 1..Len(s) : s[i] \in Digits

RECURSIVE IntValue(_)
IntValue(s) ==
    IF Len(s) = 0 THEN 0
    ELSE 10 * IntValue(SubSeq(s, 1, Len(s) - 1)) + DigitValue(s[Len(s)])

\* position of the first c in s, 0 when absent   (str.split(c, 1) cuts there)
RECURSIVE FirstIndexFrom(_, _, _)
FirstIndexFrom(s, c, i) ==
    IF i > Len(s) THEN 0
    ELSE IF s[i] = c THEN i
    ELSE FirstIndexFrom(s, c, i + 1)

FirstIndex(s, c) == FirstIndexFrom(s, c, 1)

-----------------------------------------------------------------------------
(* chat/models.py                                                          *)

PUBLIC  == "public"
PRIVATE == "private"
DIRECT  == "direct"
Kinds   == {PUBLIC, PRIVATE, DIRECT}

OWNER   == "owner"
ADMIN   == "admin"
MEMBER  == "member"
VIEWER  == "viewer"
BLOCKED == "blocked"
Roles   == {OWNER, ADMIN, MEMBER, VIEWER, BLOCKED}

\* get_user_role returns None when there is no row
NoRole == "None"

\* AnonymousUser: is_authenticated is False and id is None (0 here)
AnonymousUser == [is_authenticated |-> FALSE, id |-> 0]

AuthUser(i) == [is_authenticated |-> TRUE, id |-> i]

-----------------------------------------------------------------------------
(* chat/access.py                                                          *)

READ_ROLES  == {OWNER, ADMIN, MEMBER, VIEWER}

WRITE_ROLES == {OWNER, ADMIN, MEMBER}

\* mutant: the pair key is trusted as soon as it holds a separator
direct_contains_user_NoParse(room, user) ==
    /\ room.direct_pair_key # None
    /\ Len(room.direct_pair_key) > 0
    /\ user.is_authenticated
    /\ FirstIndex(room.direct_pair_key, ":") > 0

direct_contains_user(room, user) ==
    IF \/ room.direct_pair_key = None
       \/ Len(room.direct_pair_key) = 0
       \/ ~user.is_authenticated
    THEN FALSE
    ELSE IF FirstIndex(room.direct_pair_key, ":") = 0 THEN FALSE
    ELSE LET key    == room.direct_pair_key
             cut    == FirstIndex(key, ":")
             first  == SubSeq(key, 1, cut - 1)
             second == SubSeq(key, cut + 1, Len(key))
         IN  IF IntOk(first) /\ IntOk(second)
             THEN user.id \in {IntValue(first), IntValue(second)}
             ELSE FALSE      \* ValueError

get_user_role(rows, room, user) ==
    IF ~user.is_authenticated THEN NoRole
    ELSE LET mine == {r \in rows : r.room = room.slug /\ r.user = user.id}
         IN  IF mine = {} THEN NoRole ELSE (CHOOSE r \in mine : TRUE).role

\* mutant: the DIRECT pair check is left out of can_read
can_read_NoPairCheck(rows, room, user) ==
    IF room.kind = PUBLIC THEN TRUE
    ELSE IF ~user.is_authenticated THEN FALSE
    ELSE get_user_role(rows, room, user) \in READ_ROLES

\* mutant: PUBLIC rooms ask for an authenticated reader
can_read_PublicNeedsAuth(rows, room, user) ==
    IF ~user.is_authenticated THEN FALSE
    ELSE IF room.kind = PUBLIC THEN TRUE
    ELSE IF room.kind = DIRECT /\ ~direct_contains_user(room, user) THEN FALSE
    ELSE get_user_role(rows, room, user) \in READ_ROLES

can_read(rows, room, user) ==
    IF room.kind = PUBLIC THEN TRUE
    ELSE IF ~user.is_authenticated THEN FALSE
    ELSE IF room.kind = DIRECT /\ ~direct_contains_user(room, user) THEN FALSE
    ELSE get_user_role(rows, room, user) \in READ_ROLES

\* mutant: can_write tests READ_ROLES, so a VIEWER may write
can_write_ReadRoles(rows, room, user) ==
    IF room.kind = PUBLIC THEN user.is_authenticated
    ELSE IF ~user.is_authenticated THEN FALSE
    ELSE IF room.kind = DIRECT /\ ~direct_contains_user(room, user) THEN FALSE
    ELSE get_user_role(rows, room, user) \in READ_ROLES

can_write(rows, room, user) ==
    IF room.kind = PUBLIC THEN user.is_authenticated
    ELSE IF ~user.is_authenticated THEN FALSE
    ELSE IF room.kind = DIRECT /\ ~direct_contains_user(room, user) THEN FALSE
    ELSE get_user_role(rows, room, user) \in WRITE_ROLES

-----------------------------------------------------------------------------
(* SpecAccess: the access predicates applied to drawn rooms and users      *)

\* users drawn: 1 and 2 can appear in a pair key, 12 is a two-digit id, 3 is
\* an id no drawn key can name
AcUserIds == {1, 2, 3, 12}

AcKeys == {None} \cup SeqsUpTo(KeyChars, MaxKeyLen)

AcSlug == "room"

AcInit ==
    /\ acRoom \in [slug : {AcSlug}, kind : Kinds, direct_pair_key : AcKeys,
                 created_by : {0}]
    /\ acUser \in {AnonymousUser} \cup {AuthUser(i) : i \in AcUserIds}
    \* a role row needs a user row: only an authenticated user can hold one
    /\ acRows \in {{}} \cup
          (IF acUser.is_authenticated
           THEN {{[room |-> AcSlug, user |-> acUser.id, role |-> r]} : r \in Roles}
           ELSE {})
    /\ acOp = "none"
    /\ acResult = FALSE

AcCanRead ==
    /\ acOp = "none"
    /\ acOp' = "can_read"
    /\ acResult' = can_read(acRows, acRoom, acUser)
    /\ UNCHANGED <<notAccess, acRoom, acUser, acRows>>

AcCanWrite ==
    /\ acOp = "none"
    /\ acOp' = "can_write"
    /\ acResult' = can_write(acRows, acRoom, acUser)
    /\ UNCHANGED <<notAccess, acRoom, acUser, acRows>>

AcNext == AcCanRead \/ AcCanWrite


-----------------------------------------------------------------------------
(* chat/consumers.py: helpers of ChatConsumer                              *)

\* message bodies drawn: empty, blank, a letter, a letter between blanks
\* (longer than the limit before strip() and not after), and one letter more
\* than CHAT_MESSAGE_MAX_LENGTH
Bodies ==
    {<<>>, <<" ">>, <<"a">>,
     <<" ">> \o [i \in 1..(CHAT_MESSAGE_MAX_LENGTH - 1) |-> "a"] \o <<" ">>,
     [i \in 1..(CHAT_MESSAGE_MAX_LENGTH + 1) |-> "a"]}

RECURSIVE lstrip(_)
lstrip(s) == IF Len(s) > 0 /\ s[1] = " " THEN lstrip(Tail(s)) ELSE s

RECURSIVE rstrip(_)
rstrip(s) ==
    IF Len(s) > 0 /\ s[Len(s)] = " " THEN rstrip(SubSeq(s, 1, Len(s) - 1)) ELSE s

\* str.strip()
strip(s) == rstrip(lstrip(s))

\* What json.loads makes of a client frame:
\*   bad_json    JSONDecodeError
\*   non_object  a JSON value that is no object (list, string, number, null)
\*   no_message  an object without the key "message"
\*   non_string  an object whose "message" is no string
\*   string      an object whose "message" is the string body
Frames ==
    [kind : {"bad_json", "non_object", "no_message", "non_string"}, body : {<<>>}]
    \cup [kind : {"string"}, body : Bodies]

PUBLIC_ROOM_SLUG == "public"

PrivateSlug == "private123"

DirectSlug == "dm_abc123"

\* a second direct room, of users 1 and 3
DirectSlug2 == "dm_xyz789"

\* the slug of the direct room of users 2 and 3, which no table holds at first
DirectSlug3 == "dm_def456"

\* _is_valid_room_slug: the names below that match ^[A-Za-z0-9_-]{3,50}$
\* ("public/bad" and "x" do not)
ValidSlugs ==
    {PUBLIC_ROOM_SLUG, PrivateSlug, DirectSlug, DirectSlug2, DirectSlug3, "missing123"}

is_valid_room_slug(value) == value \in ValidSlugs

\* room names a client may put in the connection path
PathSlugs == {PUBLIC_ROOM_SLUG, PrivateSlug, DirectSlug, "missing123", "public/bad"}

ChatUserIds == {1, 2}

ChatUsers == {AnonymousUser} \cup {AuthUser(i) : i \in ChatUserIds}

Conns == {"c1", "c2"}

\* a Room row; created_by is the creator's user id, 0 when the column is NULL
Room(slug, kind, key) ==
    [slug |-> slug, kind |-> kind, direct_pair_key |-> key, created_by |-> 0]

NoRoom == Room("", "", None)

\* Room.objects.filter(slug=slug).first()
room_by_slug(table, slug) ==
    IF \E r \in table : r.slug = slug
    THEN CHOOSE r \in table : r.slug = slug
    ELSE NoRoom

\* _load_room: the Room it returns; the public room is created when missing and
\* repaired (kind, direct_pair_key) when it is a legacy row
load_room(table, slug) ==
    IF slug = PUBLIC_ROOM_SLUG
    THEN Room(PUBLIC_ROOM_SLUG, PUBLIC, None)
    ELSE room_by_slug(table, slug)

\* _load_room: the Room table it leaves
load_room_table(table, slug) ==
    IF slug = PUBLIC_ROOM_SLUG
    THEN {r \in table : r.slug # PUBLIC_ROOM_SLUG}
            \cup {Room(PUBLIC_ROOM_SLUG, PUBLIC, None)}
    ELSE table

\* a connection that has not been opened, or is closed
NoConn(status, code) ==
    [status |-> status, close_code |-> code, user |-> AnonymousUser,
     room |-> NoRoom, group |-> "", pc |-> "idle", message |-> <<>>,
     rl |-> [count |-> 0, reset |-> 0, timeout |-> 0, now |-> 0],
     \* _last_activity; _idle_task ("none", "sleeping", "done", "cancelled") and the
     \* time its sleep ends; history: when the client was last heard (connect, frame)
     last_activity |-> 0, idle_task |-> "none", idle_wake |-> 0, heard |-> 0]

\* ---- the rate limiter's cache entry ----

\* cache.get(key) is None
NoData == [present |-> FALSE, count |-> 0, reset |-> 0, expires |-> 0]

\* cache.get(key): an entry whose timeout has run out is gone
cache_get(cache, key) ==
    IF cache[key].present /\ cache[key].expires > clock THEN cache[key] ELSE NoData

\* mutant: the timeout is taken for the expiry time itself
cache_entry_TimeoutAsExpiry(count, reset, timeout) ==
    [present |-> TRUE, count |-> count, reset |-> reset, expires |-> timeout]

\* cache.set(key, value, timeout): the entry stored at the present time
cache_entry(count, reset, timeout) ==
    [present |-> TRUE, count |-> count, reset |-> reset, expires |-> clock + timeout]

Max(a, b) == IF a >= b THEN a ELSE b

Min(a, b) == IF a <= b THEN a ELSE b

\* mutant: the counter is tested before the window, so an elapsed window
\* keeps rejecting
rate_decide_CountFirst(data, now) ==
    IF data.present /\ data.count >= CHAT_MESSAGE_RATE_LIMIT
    THEN [limited |-> TRUE, count |-> 0, reset |-> 0, timeout |-> 0]
    ELSE IF ~data.present \/ data.reset <= now
    THEN [limited |-> FALSE, count |-> 1, reset |-> now + CHAT_MESSAGE_RATE_WINDOW,
          timeout |-> CHAT_MESSAGE_RATE_WINDOW]
    ELSE [limited |-> FALSE, count |-> data.count + 1, reset |-> data.reset,
          timeout |-> Max(1, data.reset - now)]

\* mutant: the limit is tested with > instead of >=
rate_decide_OffByOne(data, now) ==
    IF ~data.present \/ data.reset <= now
    THEN [limited |-> FALSE, count |-> 1, reset |-> now + CHAT_MESSAGE_RATE_WINDOW,
          timeout |-> CHAT_MESSAGE_RATE_WINDOW]
    ELSE IF data.count > CHAT_MESSAGE_RATE_LIMIT
    THEN [limited |-> TRUE, count |-> 0, reset |-> 0, timeout |-> 0]
    ELSE [limited |-> FALSE, count |-> data.count + 1, reset |-> data.reset,
          timeout |-> Max(1, data.reset - now)]

\* _rate_limited, lines 245-252: what it decides from the entry it read and
\* the time it read: whether the send is limited and, when it is not, the
\* entry and timeout it then writes
rate_decide(data, now) ==
    IF ~data.present \/ data.reset <= now
    THEN [limited |-> FALSE, count |-> 1, reset |-> now + CHAT_MESSAGE_RATE_WINDOW,
          timeout |-> CHAT_MESSAGE_RATE_WINDOW]
    ELSE IF data.count >= CHAT_MESSAGE_RATE_LIMIT
    THEN [limited |-> TRUE, count |-> 0, reset |-> 0, timeout |-> 0]
    ELSE [limited |-> FALSE, count |-> data.count + 1, reset |-> data.reset,
          timeout |-> Max(1, data.reset - now)]

\* ---- events ----

ErrorEvent(e) == [type |-> "error", error |-> e]

ChatEvent(message, username, room) ==
    [type |-> "chat_message", message |-> message, username |-> username,
     room |-> room]

\* channel_layer.group_send: the event is queued for every member of the group
group_send(boxes, group, event) ==
    [c \in Conns |->
        IF conn[c].group = group /\ group # "" THEN Append(boxes[c], event)
        ELSE boxes[c]]

group_name(room) == room.slug

-----------------------------------------------------------------------------
(* SpecChat: chat connections, their receive handler and the rate limiter  *)

ChInit ==
    /\ clock = 0
    \* the public room as context_processors.public_rooms creates it on the
    \* first page view: with the model's default kind, PRIVATE
    /\ rooms = {Room(PUBLIC_ROOM_SLUG, PRIVATE, None),
                [Room(PrivateSlug, PRIVATE, None) EXCEPT !.created_by = 1],
                [Room(DirectSlug, DIRECT, <<"1", ":", "2">>) EXCEPT !.created_by = 1],
                [Room(DirectSlug2, DIRECT, <<"1", ":", "3">>) EXCEPT !.created_by = 1]}
    /\ roleRows = {[room |-> PrivateSlug, user |-> 1, role |-> OWNER],
               [room |-> PrivateSlug, user |-> 2, role |-> MEMBER],
               [room |-> DirectSlug, user |-> 1, role |-> OWNER],
               [room |-> DirectSlug, user |-> 2, role |-> MEMBER],
               [room |-> DirectSlug, user |-> 3, role |-> MEMBER],
               [room |-> DirectSlug2, user |-> 1, role |-> OWNER],
               [room |-> DirectSlug2, user |-> 3, role |-> MEMBER]}
    /\ conn = [c \in Conns |-> NoConn("new", 0)]
    /\ rlCache = [u \in ChatUserIds |-> NoData]
    /\ messages = <<>>
    /\ mailbox = [c \in Conns |-> <<>>]
    /\ outbox = [c \in Conns |-> <<>>]
    /\ nframes = 0
    /\ roleEdited = FALSE
    /\ rlHist = [u \in ChatUserIds |-> <<>>]
    /\ rlOverlap = [u \in ChatUserIds |-> FALSE]
    /\ rlWindows = [u \in ChatUserIds |-> {}]

\* time passes; cache entries whose timeout has run out are dropped
Tick(last) ==
    /\ clock < last
    /\ clock' = clock + 1
    /\ rlCache' = [u \in ChatUserIds |->
                      IF rlCache[u].present /\ rlCache[u].expires <= clock + 1
                      THEN NoData ELSE rlCache[u]]
    /\ UNCHANGED <<notChat, rooms, roleRows, conn, messages, mailbox, outbox, nframes,
                   roleEdited, rlHist, rlOverlap, rlWindows>>

\* an administrator edits the role of a row of user 2 (ChatRoleAdmin; the
\* tests downgrade the member)
SetRole(row, role) ==
    /\ ~roleEdited
    /\ row \in roleRows
    /\ row.user = 2
    /\ role # row.role
    /\ roleRows' = (roleRows \ {row}) \cup {[row EXCEPT !.role = role]}
    /\ roleEdited' = TRUE
    /\ UNCHANGED <<notChat, clock, rooms, conn, rlCache, messages, mailbox, outbox, nframes,
                   rlHist, rlOverlap, rlWindows>>

\* connections are opened in the order c1, c2 (they are interchangeable)
InOrder(c) == c = "c1" \/ conn["c1"].status # "new"

\* the poll interval of ChatConsumer._idle_watchdog
chat_idle_interval == Max(IdlePollFloor, Min(IdlePollCeiling, CHAT_WS_IDLE_TIMEOUT))

\* connect, lines 75-86: the consumer after it joined the group and was accepted
joined_conn(user, room, now) ==
    [NoConn("joined", 0) EXCEPT
        !.user = user, !.room = room, !.group = group_name(room),
        !.last_activity = now, !.heard = now,
        !.idle_task = IF CHAT_WS_IDLE_TIMEOUT > 0 THEN "sleeping" ELSE "none",
        !.idle_wake = IF CHAT_WS_IDLE_TIMEOUT > 0 THEN now + chat_idle_interval ELSE 0]

\* receive, line 101: a client frame resets the idle clock
client_frame(cn, now) == [cn EXCEPT !.last_activity = now, !.heard = now]

\* mutant: connect tests can_read before it tests that the room was found
Connect_ReadCheckFirst(c, user, room_slug) ==
    /\ conn[c].status = "new"
    /\ InOrder(c)
    /\ LET room == load_room(rooms, room_slug) IN
       IF room_slug # PUBLIC_ROOM_SLUG /\ ~is_valid_room_slug(room_slug)
       THEN /\ conn' = [conn EXCEPT ![c] = NoConn("closed", 4404)]
            /\ UNCHANGED rooms
       ELSE IF ~can_read(roleRows, room, user)
       THEN /\ conn' = [conn EXCEPT ![c] = NoConn("closed", 4403)]
            /\ rooms' = load_room_table(rooms, room_slug)
       ELSE /\ conn' = [conn EXCEPT ![c] = joined_conn(user, room, mono)]
            /\ rooms' = load_room_table(rooms, room_slug)
    /\ UNCHANGED <<notChat, clock, roleRows, rlCache, messages, mailbox, outbox, nframes,
                   roleEdited, rlHist, rlOverlap, rlWindows>>

\* mutant: the channel joins the group before the read check
Connect_JoinsThenChecks(c, user, room_slug) ==
    /\ conn[c].status = "new"
    /\ InOrder(c)
    /\ LET room == load_room(rooms, room_slug) IN
       IF room_slug # PUBLIC_ROOM_SLUG /\ ~is_valid_room_slug(room_slug)
       THEN /\ conn' = [conn EXCEPT ![c] = NoConn("closed", 4404)]
            /\ UNCHANGED rooms
       ELSE IF room = NoRoom
       THEN /\ conn' = [conn EXCEPT ![c] = NoConn("closed", 4404)]
            /\ rooms' = load_room_table(rooms, room_slug)
       ELSE IF ~can_read(roleRows, room, user)
       THEN /\ conn' = [conn EXCEPT ![c] = [NoConn("closed", 4403) EXCEPT
                                               !.group = group_name(room)]]
            /\ rooms' = load_room_table(rooms, room_slug)
       ELSE /\ conn' = [conn EXCEPT ![c] = joined_conn(user, room, mono)]
            /\ rooms' = load_room_table(rooms, room_slug)
    /\ UNCHANGED <<notChat, clock, roleRows, rlCache, messages, mailbox, outbox, nframes,
                   roleEdited, rlHist, rlOverlap, rlWindows>>

\* ChatConsumer.connect
Connect(c, user, room_slug) ==
    /\ conn[c].status = "new"
    /\ InOrder(c)
    /\ LET room == load_room(rooms, room_slug) IN
       IF room_slug # PUBLIC_ROOM_SLUG /\ ~is_valid_room_slug(room_slug)
       THEN /\ conn' = [conn EXCEPT ![c] = NoConn("closed", 4404)]
            /\ UNCHANGED rooms
       ELSE IF room = NoRoom
       THEN /\ conn' = [conn EXCEPT ![c] = NoConn("closed", 4404)]
            /\ rooms' = load_room_table(rooms, room_slug)
       ELSE IF ~can_read(roleRows, room, user)
       THEN /\ conn' = [conn EXCEPT ![c] = NoConn("closed", 4403)]
            /\ rooms' = load_room_table(rooms, room_slug)
       ELSE /\ conn' = [conn EXCEPT ![c] = joined_conn(user, room, mono)]
            /\ rooms' = load_room_table(rooms, room_slug)
    /\ UNCHANGED <<notChat, clock, roleRows, rlCache, messages, mailbox, outbox, nframes,
                   roleEdited, rlHist, rlOverlap, rlWindows>>

\* mutant: the idle task is left running
Disconnect_LeavesWatchdog(c) ==
    /\ conn[c].status \in {"joined", "idle_closed", "closed"}
    /\ conn[c].pc = "idle"
    /\ IF conn[c].status = "closed"
       THEN \* refused by connect, or torn down before: no _idle_task, and no
            \* room_group_name or a group the channel has left already
            UNCHANGED <<conn, mailbox, outbox>>
       ELSE /\ conn' = [conn EXCEPT ![c] =
                  [NoConn("closed", IF @.status = "idle_closed" THEN @.close_code ELSE 1000)
                      EXCEPT !.idle_task = conn[c].idle_task,
                             !.idle_wake = conn[c].idle_wake]]
            /\ mailbox' = [mailbox EXCEPT ![c] = <<>>]
            /\ outbox' = [outbox EXCEPT ![c] = <<>>]
    /\ UNCHANGED <<notChat, clock, rooms, roleRows, rlCache, messages, nframes,
                   roleEdited, rlHist, rlOverlap, rlWindows>>

\* ChatConsumer.disconnect, run when the client closes the connection
Disconnect(c) ==
    /\ conn[c].status \in {"joined", "idle_closed", "closed"}
    /\ conn[c].pc = "idle"
    /\ IF conn[c].status = "closed"
       THEN \* refused by connect, or torn down before: no _idle_task, and no
            \* room_group_name or a group the channel has left already
            UNCHANGED <<conn, mailbox, outbox>>
       ELSE /\ conn' = [conn EXCEPT ![c] =
                  [NoConn("closed", IF @.status = "idle_closed" THEN @.close_code ELSE 1000)
                      EXCEPT !.idle_task = IF conn[c].idle_task = "sleeping"
                                           THEN "cancelled" ELSE conn[c].idle_task]]
            /\ mailbox' = [mailbox EXCEPT ![c] = <<>>]
            /\ outbox' = [outbox EXCEPT ![c] = <<>>]
    /\ UNCHANGED <<notChat, clock, rooms, roleRows, rlCache, messages, nframes,
                   roleEdited, rlHist, rlOverlap, rlWindows>>

\* mutant: receive goes on to the rate limiter whatever role the sender holds
Receive_NoWriteCheck(c, frame, budget) ==
    /\ conn[c].status = "joined"
    /\ conn[c].pc = "idle"
    /\ nframes < budget
    /\ nframes' = nframes + 1
    /\ LET message == strip(frame.body)
           user    == conn[c].user
           heard   == [conn EXCEPT ![c] = client_frame(@, mono)]
       IN
       IF frame.kind = "bad_json" THEN
            /\ conn' = heard
            /\ UNCHANGED <<outbox, mailbox>>
       ELSE IF frame.kind = "non_object" THEN
            \* text_data_json.get raises AttributeError: the consumer dies,
            \* disconnect() is not run
            /\ conn' = [heard EXCEPT ![c].status = "crashed"]
            /\ outbox' = [outbox EXCEPT ![c] = <<>>]
            /\ UNCHANGED mailbox
       ELSE IF frame.kind = "non_string" THEN
            /\ conn' = heard
            /\ UNCHANGED <<outbox, mailbox>>
       ELSE IF Len(message) = 0 THEN
            /\ conn' = heard
            /\ UNCHANGED <<outbox, mailbox>>
       ELSE IF Len(message) > CHAT_MESSAGE_MAX_LENGTH THEN
            /\ outbox' = [outbox EXCEPT
                             ![c] = Append(@, ErrorEvent("message_too_long"))]
            /\ conn' = heard
            /\ UNCHANGED mailbox
       ELSE IF ~user.is_authenticated THEN
            /\ conn' = heard
            /\ UNCHANGED <<outbox, mailbox>>
       ELSE /\ conn' = [heard EXCEPT ![c].pc = "rate_get", ![c].message = message]
            /\ UNCHANGED <<outbox, mailbox>>
    /\ UNCHANGED <<notChat, clock, rooms, roleRows, rlCache, messages, roleEdited, rlHist,
                   rlOverlap, rlWindows>>

\* ChatConsumer.receive, lines 100-125: from the frame to the can_write check
Receive(c, frame, budget) ==
    /\ conn[c].status = "joined"
    /\ conn[c].pc = "idle"
    /\ nframes < budget
    /\ nframes' = nframes + 1
    /\ LET message == strip(frame.body)
           user    == conn[c].user
           heard   == [conn EXCEPT ![c] = client_frame(@, mono)]
       IN
       IF frame.kind = "bad_json" THEN
            /\ conn' = heard
            /\ UNCHANGED <<outbox, mailbox>>
       ELSE IF frame.kind = "non_object" THEN
            \* text_data_json.get raises AttributeError: the consumer dies,
            \* disconnect() is not run
            /\ conn' = [heard EXCEPT ![c].status = "crashed"]
            /\ outbox' = [outbox EXCEPT ![c] = <<>>]
            /\ UNCHANGED mailbox
       ELSE IF frame.kind = "non_string" THEN
            /\ conn' = heard
            /\ UNCHANGED <<outbox, mailbox>>
       ELSE IF Len(message) = 0 THEN
            /\ conn' = heard
            /\ UNCHANGED <<outbox, mailbox>>
       ELSE IF Len(message) > CHAT_MESSAGE_MAX_LENGTH THEN
            /\ outbox' = [outbox EXCEPT
                             ![c] = Append(@, ErrorEvent("message_too_long"))]
            /\ conn' = heard
            /\ UNCHANGED mailbox
       ELSE IF ~user.is_authenticated THEN
            /\ conn' = heard
            /\ UNCHANGED <<outbox, mailbox>>
       ELSE IF ~can_write(roleRows, conn[c].room, user) THEN
            /\ outbox' = [outbox EXCEPT ![c] = Append(@, ErrorEvent("forbidden"))]
            /\ conn' = heard
            /\ UNCHANGED mailbox
       ELSE /\ conn' = [heard EXCEPT ![c].pc = "rate_get", ![c].message = message]
            /\ UNCHANGED <<outbox, mailbox>>
    /\ UNCHANGED <<notChat, clock, rooms, roleRows, rlCache, messages, roleEdited, rlHist,
                   rlOverlap, rlWindows>>

\* _rate_limited, lines 240-249: time.time(), cache.get and the decision; a
\* limited send is answered with the error rate_limited and dropped
RateGet(c) ==
    /\ conn[c].pc = "rate_get"
    /\ LET u    == conn[c].user.id
           now  == clock
           data == cache_get(rlCache, u)
           d    == rate_decide(data, now)
       IN
       /\ rlOverlap' = [rlOverlap EXCEPT ![u] =
             @ \/ \E o \in Conns \ {c} :
                     conn[o].pc = "rate_set" /\ conn[o].user.id = u]
       /\ IF d.limited
          THEN /\ outbox' = [outbox EXCEPT
                                ![c] = Append(@, ErrorEvent("rate_limited"))]
               /\ conn' = [conn EXCEPT ![c].pc = "idle", ![c].message = <<>>]
               /\ rlHist' = [rlHist EXCEPT
                                ![u] = Append(@, [now |-> now, ok |-> FALSE,
                                                  conn |-> c])]
          ELSE /\ conn' = [conn EXCEPT
                              ![c].pc = "rate_set",
                              ![c].rl = [count |-> d.count, reset |-> d.reset,
                                         timeout |-> d.timeout, now |-> now]]
               /\ UNCHANGED <<outbox, rlHist>>
    /\ UNCHANGED <<notChat, clock, rooms, roleRows, rlCache, messages, mailbox, nframes,
                   roleEdited, rlWindows>>

\* _rate_limited, lines 246 and 251: cache.set, then return False
RateSet(c) ==
    /\ conn[c].pc = "rate_set"
    /\ LET u == conn[c].user.id
           w == conn[c].rl
       IN
       /\ rlCache' = [rlCache EXCEPT ![u] = cache_entry(w.count, w.reset, w.timeout)]
       /\ rlHist' = [rlHist EXCEPT
                        ![u] = Append(@, [now |-> w.now, ok |-> TRUE, conn |-> c])]
       /\ rlWindows' = [rlWindows EXCEPT
                           ![u] = IF w.count = 1 THEN @ \cup {w.reset} ELSE @]
    /\ conn' = [conn EXCEPT ![c].pc = "save", ![c].rl = NoConn("", 0).rl]
    /\ UNCHANGED <<notChat, clock, rooms, roleRows, messages, mailbox, outbox, nframes,
                   roleEdited, rlOverlap>>

\* mutant: the message is published without having been stored
SaveMessage_Skipped(c) ==
    /\ conn[c].pc = "save"
    /\ conn' = [conn EXCEPT ![c].pc = "publish"]
    /\ UNCHANGED <<notChat, clock, rooms, roleRows, rlCache, messages, mailbox, outbox,
                   nframes, roleEdited, rlHist, rlOverlap, rlWindows>>

\* save_message: Message.objects.create
SaveMessage(c) ==
    /\ conn[c].pc = "save"
    /\ messages' = Append(messages,
                          [room |-> conn[c].room.slug, user |-> conn[c].user.id,
                           message_content |-> conn[c].message])
    /\ conn' = [conn EXCEPT ![c].pc = "publish"]
    /\ UNCHANGED <<notChat, clock, rooms, roleRows, rlCache, mailbox, outbox, nframes,
                   roleEdited, rlHist, rlOverlap, rlWindows>>

\* receive, lines 140-149: group_send of the chat_message event to the room
Publish(c) ==
    /\ conn[c].pc = "publish"
    /\ mailbox' = group_send(mailbox, conn[c].group,
                             ChatEvent(conn[c].message, conn[c].user.id,
                                       conn[c].room.slug))
    /\ conn' = IF conn[c].room.kind = DIRECT
               THEN [conn EXCEPT ![c].pc = "targets"]
               ELSE [conn EXCEPT ![c].pc = "idle", ![c].message = <<>>]
    /\ UNCHANGED <<notChat, clock, rooms, roleRows, rlCache, messages, outbox, nframes,
                   roleEdited, rlHist, rlOverlap, rlWindows>>

\* mutant: the event queued last is sent first
ChatMessage_NewestFirst(c) ==
    /\ conn[c].status = "joined"
    /\ conn[c].pc = "idle"
    /\ mailbox[c] # <<>>
    /\ outbox' = [outbox EXCEPT ![c] = Append(@, [mailbox[c][Len(mailbox[c])] EXCEPT
                                                    !.type = "message"])]
    /\ mailbox' = [mailbox EXCEPT ![c] = SubSeq(@, 1, Len(@) - 1)]
    /\ conn' = [conn EXCEPT ![c].last_activity = mono]
    /\ UNCHANGED <<notChat, clock, rooms, roleRows, rlCache, messages, nframes,
                   roleEdited, rlHist, rlOverlap, rlWindows>>

\* ChatConsumer.chat_message: a queued event is sent to the client
ChatMessage(c) ==
    /\ conn[c].status = "joined"
    /\ conn[c].pc = "idle"
    /\ mailbox[c] # <<>>
    /\ outbox' = [outbox EXCEPT ![c] = Append(@, [Head(mailbox[c]) EXCEPT
                                                    !.type = "message"])]
    /\ mailbox' = [mailbox EXCEPT ![c] = Tail(@)]
    \* line 168: the delivery of a room event resets the idle clock as well
    /\ conn' = [conn EXCEPT ![c].last_activity = mono]
    /\ UNCHANGED <<notChat, clock, rooms, roleRows, rlCache, messages, nframes,
                   roleEdited, rlHist, rlOverlap, rlWindows>>

\* SpecRate: the rate limiter under load.  Authenticated users join the private
\* room, where both may write, and send well-formed messages.  The first
\* connection is user 1's; the second is user 1's or user 2's.
RateFrames == {[kind |-> "string", body |-> <<"a">>]}

RlNext ==
    \/ Tick(MaxRateTime)
    \/ \E c \in Conns, i \in ChatUserIds :
          (c = "c1" => i = 1) /\ Connect(c, AuthUser(i), PrivateSlug)
    \/ \E c \in Conns, frame \in RateFrames : Receive(c, frame, MaxSends)
    \/ \E c \in Conns : RateGet(c)
    \/ \E c \in Conns : RateSet(c)
    \/ \E c \in Conns : SaveMessage(c)
    \/ \E c \in Conns : Publish(c)

-----------------------------------------------------------------------------
(* SpecUnread: the unread counters of the direct inbox (direct_inbox.py)   *)

\* ---- a Python dict, as the sequence of its items in insertion order ----

dict_has(d, k) == \E i \in 1..Len(d) : d[i].k = k

dict_get(d, k, default) ==
    IF dict_has(d, k) THEN d[CHOOSE i \in 1..Len(d) : d[i].k = k].v ELSE default

\* d[k] = v: an existing key keeps its place, a new key goes last
dict_set(d, k, v) ==
    IF dict_has(d, k)
    THEN [i \in 1..Len(d) |-> IF d[i].k = k THEN [k |-> k, v |-> v] ELSE d[i]]
    ELSE Append(d, [k |-> k, v |-> v])

\* d.pop(k, None)
RECURSIVE dict_pop(_, _)
dict_pop(d, k) ==
    IF d = <<>> THEN <<>>
    ELSE IF Head(d).k = k THEN dict_pop(Tail(d), k)
    ELSE <<Head(d)>> \o dict_pop(Tail(d), k)

\* list(d.keys())
dict_keys(d) == [i \in 1..Len(d) |-> d[i].k]

\* ---- cache values ----

\* cache.get(key) is None
Absent == [present |-> FALSE, kind |-> "none", value |-> <<>>]

DictValue(d) == [present |-> TRUE, kind |-> "dict", value |-> d]

\* _normalize_slugs, over a list of strings
RECURSIVE normalize_slugs(_)
normalize_slugs(list) ==
    IF list = <<>> THEN <<>>
    ELSE LET rest == normalize_slugs(SubSeq(list, 1, Len(list) - 1))
             slug == strip(list[Len(list)])
         IN  IF slug = <<>> \/ \E i \in 1..Len(rest) : rest[i] = slug
             THEN rest ELSE Append(rest, slug)

\* _normalize_counts, lines 43-55: the items of a dict, keys stripped, blank
\* keys and counts that are not positive left out
RECURSIVE normalize_dict(_)
normalize_dict(d) ==
    IF d = <<>> THEN <<>>
    ELSE LET rest  == normalize_dict(SubSeq(d, 1, Len(d) - 1))
             slug  == strip(d[Len(d)].k)
             count == d[Len(d)].v
         IN  IF slug = <<>> \/ count <= 0 THEN rest
             ELSE dict_set(rest, slug, count)

\* _normalize_counts
normalize_counts(value) ==
    IF value.present /\ value.kind = "dict" THEN normalize_dict(value.value)
    ELSE IF value.present /\ value.kind = "list"
    THEN LET slugs == normalize_slugs(value.value)
         IN  [i \in 1..Len(slugs) |-> [k |-> slugs[i], v |-> 1]]
    ELSE <<>>

\* the state the three functions return
unread_state(counts) ==
    [dialogs |-> Len(dict_keys(counts)), slugs |-> dict_keys(counts), counts |-> counts]

\* get_unread_state
get_unread_state(value) == unread_state(normalize_counts(value))

\* str(room_slug or "").strip()
clean_slug(room_slug) == strip(IF room_slug = None THEN <<>> ELSE room_slug)

\* mark_unread, lines 81-82: the counts it goes on to write
mark_unread_counts(value, slug) ==
    LET current == normalize_counts(value)
    IN  dict_set(current, slug, dict_get(current, slug, 0) + 1)

\* mutant: the room's count is set to 0 and its key stays
mark_read_counts_ZeroCount(value, slug) ==
    LET current == normalize_counts(value)
    IN  IF dict_has(current, slug) THEN dict_set(current, slug, 0) ELSE current

\* mark_read, lines 96-97: the counts it goes on to write
mark_read_counts(value, slug) == dict_pop(normalize_counts(value), slug)

\* ---- callers ----

UnreadUserIds == {1, 2}

\* the users that hold an inbox: the two above and an outsider to their room
InboxUserIds == {1, 2, 3}

\* room names passed in: two rooms, one of them also with blanks around it,
\* a blank name and None
RoomA == <<"a">>
RoomB == <<"b">>
Rooms == {RoomA, RoomB}
UnreadSlugs == {None, <<" ">>, RoomA, <<" ", "a", " ">>, RoomB}

\* processes that call into direct_inbox.py
Procs == {"p1", "p2"}

NoReturn == [dialogs |-> -1, slugs |-> <<>>, counts |-> <<>>]

\* a caller outside a call: the call it finished last and what that returned
IdleProc(op, u, slug, ret) ==
    [pc |-> "idle", op |-> op, user |-> u, slug |-> slug, pending |-> <<>>,
     ret |-> ret]

\* the second process is needed only while the first is inside a call
InTurn(p) == p = "p1" \/ urProc["p1"].pc # "idle"

\* some other caller is between its cache.get and its cache.set for user u
OtherInFlight(p, u) ==
    \E o \in Procs \ {p} : urProc[o].pc = "set" /\ urProc[o].user = u

UrInit ==
    /\ urStore = [u \in InboxUserIds |-> Absent]
    /\ urProc = [p \in Procs |-> IdleProc("none", 0, <<>>, NoReturn)]
    /\ urCalls = 0
    /\ urMarks = [u \in UnreadUserIds |-> [r \in Rooms |-> 0]]
    /\ urRaced = [u \in UnreadUserIds |-> FALSE]

\* get_unread_state(user_id)
GetUnreadState(p, u) ==
    /\ urProc[p].pc = "idle"
    /\ InTurn(p)
    /\ urCalls < MaxCalls
    /\ urCalls' = urCalls + 1
    /\ urProc' = [urProc EXCEPT
                     ![p] = IdleProc("get_unread_state", u, <<>>,
                                     get_unread_state(urStore[u]))]
    /\ UNCHANGED <<notUnread, urStore, urMarks, urRaced>>

\* mark_unread, lines 78-82: a blank name returns the state as it is; else the
\* entry is read and the new counts are made
MarkUnreadGet(p, u, room_slug) ==
    /\ urProc[p].pc = "idle"
    /\ InTurn(p)
    /\ urCalls < MaxCalls
    /\ urCalls' = urCalls + 1
    /\ LET slug == clean_slug(room_slug) IN
       IF slug = <<>>
       THEN /\ urProc' = [urProc EXCEPT
                            ![p] = IdleProc("mark_unread", u, <<>>,
                                            get_unread_state(urStore[u]))]
            /\ UNCHANGED urRaced
       ELSE /\ urProc' = [urProc EXCEPT ![p] =
                            [pc |-> "set", op |-> "mark_unread", user |-> u,
                             slug |-> slug,
                             pending |-> mark_unread_counts(urStore[u], slug),
                             ret |-> NoReturn]]
            /\ urRaced' = [urRaced EXCEPT ![u] = @ \/ OtherInFlight(p, u)]
    /\ UNCHANGED <<notUnread, urStore, urMarks>>

\* mark_unread, lines 83-89: cache.set and the state returned
MarkUnreadSet(p) ==
    /\ urProc[p].pc = "set"
    /\ urProc[p].op = "mark_unread"
    /\ LET u == urProc[p].user IN
       /\ urStore' = [urStore EXCEPT ![u] = DictValue(urProc[p].pending)]
       /\ urMarks' = [urMarks EXCEPT ![u][urProc[p].slug] = @ + 1]
    /\ urProc' = [urProc EXCEPT ![p] = IdleProc(urProc[p].op, urProc[p].user, urProc[p].slug,
                                             unread_state(urProc[p].pending))]
    /\ UNCHANGED <<notUnread, urCalls, urRaced>>

\* mark_read, lines 93-97
MarkReadGet(p, u, room_slug) ==
    /\ urProc[p].pc = "idle"
    /\ InTurn(p)
    /\ urCalls < MaxCalls
    /\ urCalls' = urCalls + 1
    /\ LET slug == clean_slug(room_slug) IN
       IF slug = <<>>
       THEN /\ urProc' = [urProc EXCEPT
                            ![p] = IdleProc("mark_read", u, <<>>,
                                            get_unread_state(urStore[u]))]
            /\ UNCHANGED urRaced
       ELSE /\ urProc' = [urProc EXCEPT ![p] =
                            [pc |-> "set", op |-> "mark_read", user |-> u,
                             slug |-> slug,
                             pending |-> mark_read_counts(urStore[u], slug),
                             ret |-> NoReturn]]
            /\ urRaced' = [urRaced EXCEPT ![u] = @ \/ OtherInFlight(p, u)]
    /\ UNCHANGED <<notUnread, urStore, urMarks>>

\* mutant: mark_read writes back what is left even when nothing is
MarkReadSet_AlwaysSet(p) ==
    /\ urProc[p].pc = "set"
    /\ urProc[p].op = "mark_read"
    /\ LET u == urProc[p].user IN
       /\ urStore' = [urStore EXCEPT ![u] = DictValue(urProc[p].pending)]
       /\ urMarks' = [urMarks EXCEPT ![u][urProc[p].slug] = 0]
    /\ urProc' = [urProc EXCEPT ![p] = IdleProc(urProc[p].op, urProc[p].user, urProc[p].slug,
                                             unread_state(urProc[p].pending))]
    /\ UNCHANGED <<notUnread, urCalls, urRaced>>

\* mark_read, lines 98-107: cache.set of what is left, or cache.delete when
\* nothing is, and the state returned
MarkReadSet(p) ==
    /\ urProc[p].pc = "set"
    /\ urProc[p].op = "mark_read"
    /\ LET u == urProc[p].user IN
       /\ urStore' = [urStore EXCEPT
                         ![u] = IF urProc[p].pending # <<>>
                                THEN DictValue(urProc[p].pending) ELSE Absent]
       /\ urMarks' = [urMarks EXCEPT ![u][urProc[p].slug] = 0]
    /\ urProc' = [urProc EXCEPT ![p] = IdleProc(urProc[p].op, urProc[p].user, urProc[p].slug,
                                             unread_state(urProc[p].pending))]
    /\ UNCHANGED <<notUnread, urCalls, urRaced>>

\* the entry's timeout (ttl_seconds after its last cache.set) runs out
Expire(u) ==
    /\ urStore[u].present
    /\ urStore' = [urStore EXCEPT ![u] = Absent]
    /\ urMarks' = [urMarks EXCEPT ![u] = [r \in Rooms |-> 0]]
    /\ urRaced' = [urRaced EXCEPT
                      ![u] = @ \/ \E o \in Procs :
                                    urProc[o].pc = "set" /\ urProc[o].user = u]
    /\ UNCHANGED <<notUnread, urProc, urCalls>>

UrNext ==
    \/ \E p \in Procs, u \in UnreadUserIds : GetUnreadState(p, u)
    \/ \E p \in Procs, u \in UnreadUserIds, s \in UnreadSlugs : MarkUnreadGet(p, u, s)
    \/ \E p \in Procs : MarkUnreadSet(p)
    \/ \E p \in Procs, u \in UnreadUserIds, s \in UnreadSlugs : MarkReadGet(p, u, s)
    \/ \E p \in Procs : MarkReadSet(p)
    \/ \E u \in UnreadUserIds : Expire(u)

-----------------------------------------------------------------------------
(* SpecActive: inbox connections and the active-room marker                *)
(* (DirectInboxConsumer, direct_inbox.py lines 110-146)                    *)

\* inbox connections; conn_id (uuid4) is the connection's own name
InboxConns == {"i1", "i2"}

\* cache.get(active_key) is None
NoMarker == [present |-> FALSE, roomSlug |-> "", connId |-> "", expires |-> 0]

\* cache.get(active_key(user_id)): a marker whose timeout has run out is gone
active_get(store, u) ==
    IF store[u].present /\ store[u].expires > clock THEN store[u] ELSE NoMarker

\* cache.set(active_key(user_id), value, timeout=ttl_seconds)
active_entry(roomSlug, connId, ttl) ==
    [present |-> TRUE, roomSlug |-> roomSlug, connId |-> connId, expires |-> clock + ttl]

\* is_room_active
is_room_active(store, u, room_slug) ==
    LET value == active_get(store, u)
    IN  value.present /\ value.roomSlug = room_slug

\* user_group_name
user_group_name(u) == u

NoInboxConn(status, code) ==
    [status |-> status, close_code |-> code, user |-> AnonymousUser,
     pc |-> "idle", held |-> NoMarker,
     \* _last_client_activity; the two tasks ("none", "sleeping", "done",
     \* "cancelled") and the times their sleeps end
     last_client_activity |-> 0,
     heartbeat_task |-> "none", heartbeat_wake |-> 0,
     idle_task |-> "none", idle_wake |-> 0,
     \* history: when the client was last heard (connect, frame)
     heard |-> 0]

\* the roomSlug of a client frame: the JSON null, a value that is no string,
\* or a string: a room name, given with blanks around it or not
NullSlug == [text |-> "", pad |-> FALSE, kind |-> "null"]

NonString == [text |-> "", pad |-> FALSE, kind |-> "number"]

SlugString(text, pad) == [text |-> text, pad |-> pad, kind |-> "string"]

\* raw_slug.strip()
raw_strip(raw) == raw.text

InboxError(code) == [type |-> "error", code |-> code]

IbInit ==
    /\ ibConn = [i \in InboxConns |-> NoInboxConn("new", 0)]
    /\ ibActive = [u \in InboxUserIds |-> NoMarker]
    /\ ibOut = [i \in InboxConns |-> <<>>]
    /\ ibMail = [i \in InboxConns |-> <<>>]
    /\ ibFrames = 0
    /\ ibSent = [u \in InboxUserIds |-> 0]

\* the sleeps of DirectInboxConsumer._heartbeat and _idle_watchdog
inbox_heartbeat_interval == Max(TimerFloor, DIRECT_INBOX_HEARTBEAT)

inbox_idle_interval ==
    Max(TimerFloor, Min(DIRECT_INBOX_HEARTBEAT, DIRECT_INBOX_IDLE_TIMEOUT))

\* task.cancel() and await task: a sleeping task ends cancelled
cancelled(task) == IF task = "sleeping" THEN "cancelled" ELSE task

\* inbox connections are opened in the order i1, i2
IbInOrder(i) == i = "i1" \/ ibConn["i1"].status # "new"

\* DirectInboxConsumer.connect
IbConnect(i, user) ==
    /\ ibConn[i].status = "new"
    /\ IbInOrder(i)
    /\ IF ~user.is_authenticated
       THEN /\ ibConn' = [ibConn EXCEPT ![i] = NoInboxConn("closed", 4401)]
            /\ UNCHANGED ibOut
       ELSE /\ ibConn' = [ibConn EXCEPT
                            ![i] = [NoInboxConn("joined", 0) EXCEPT
                                       !.user = user,
                                       !.last_client_activity = mono,
                                       !.heard = mono,
                                       !.heartbeat_task = "sleeping",
                                       !.heartbeat_wake = mono + inbox_heartbeat_interval,
                                       !.idle_task = IF DIRECT_INBOX_IDLE_TIMEOUT > 0
                                                     THEN "sleeping" ELSE "none",
                                       !.idle_wake = IF DIRECT_INBOX_IDLE_TIMEOUT > 0
                                                     THEN mono + inbox_idle_interval
                                                     ELSE 0]]
            /\ ibOut' = [ibOut EXCEPT
                            ![i] = Append(@, [type |-> "direct_unread_state",
                                              unread |-> get_unread_state(urStore[user.id])])]
    /\ UNCHANGED <<bkVars, tmVars, rdVars, dsVars, prVars, acVars, chVars, urVars, ibSent, ibActive, ibMail, ibFrames>>

\* mutant: clear_active_room deletes the marker whoever owns it
ClearRead_AnyOwner(i, then) ==
    LET value == active_get(ibActive, ibConn[i].user.id)
    IN  IF ~value.present
        THEN [ibConn[i] EXCEPT !.pc = then, !.held = NoMarker]
        ELSE [ibConn[i] EXCEPT !.pc = "clear_delete", !.held = value]

\* clear_active_room(user_id, conn_id), lines 134-138: the marker is read; it
\* is deleted next only if it is this connection's
ClearRead(i, then) ==
    LET value == active_get(ibActive, ibConn[i].user.id)
    IN  IF ~value.present \/ value.connId # i
        THEN [ibConn[i] EXCEPT !.pc = then, !.held = NoMarker]
        ELSE [ibConn[i] EXCEPT !.pc = "clear_delete", !.held = value]

\* DirectInboxConsumer.disconnect, up to the read of clear_active_room
IbDisconnect(i) ==
    /\ ibConn[i].status \in {"joined", "idle_closed", "closed"}
    /\ ibConn[i].pc = "idle"
    /\ ibConn' = IF ibConn[i].status = "closed"
                 THEN \* refused by connect, or torn down before: no task, no user
                      \* and no group_name, or a marker and a group left already
                      ibConn
                 ELSE [ibConn EXCEPT
                         ![i] = [ClearRead(i, "closing") EXCEPT
                                    !.status = "closing",
                                    !.heartbeat_task = cancelled(@),
                                    !.idle_task = cancelled(@)]]
    /\ UNCHANGED <<bkVars, tmVars, rdVars, dsVars, prVars, acVars, chVars, urVars, ibSent, ibActive, ibOut, ibMail, ibFrames>>

\* clear_active_room, line 139: cache.delete
IbClearDelete(i) ==
    /\ ibConn[i].pc = "clear_delete"
    /\ ibActive' = [ibActive EXCEPT ![ibConn[i].user.id] = NoMarker]
    /\ ibConn' = [ibConn EXCEPT
                     ![i].pc = IF ibConn[i].status = "closing" THEN "closing" ELSE "idle",
                     ![i].held = NoMarker]
    /\ UNCHANGED <<bkVars, tmVars, rdVars, dsVars, prVars, acVars, chVars, urVars, ibSent, ibOut, ibMail, ibFrames>>

\* DirectInboxConsumer.disconnect, lines 382-383: group_discard; the
\* connection is gone
IbClosed(i) ==
    /\ ibConn[i].status = "closing"
    /\ ibConn[i].pc = "closing"
    /\ ibConn' = [ibConn EXCEPT
                     ![i] = [NoInboxConn("closed", IF @.close_code = 0 THEN 1000
                                                   ELSE @.close_code) EXCEPT
                                !.user = ibConn[i].user,
                                !.heartbeat_task = ibConn[i].heartbeat_task,
                                !.idle_task = ibConn[i].idle_task]]
    /\ ibOut' = [ibOut EXCEPT ![i] = <<>>]
    /\ ibMail' = [ibMail EXCEPT ![i] = <<>>]
    /\ UNCHANGED <<bkVars, tmVars, rdVars, dsVars, prVars, acVars, chVars, urVars, ibSent, ibActive, ibFrames>>

\* receive of {"type": "ping"}: touch_active_room, lines 122-126: the marker
\* is read; it is written back next only if it is this connection's
IbPing(i) ==
    /\ ibConn[i].status = "joined"
    /\ ibConn[i].pc = "idle"
    /\ ibFrames < MaxInboxFrames
    /\ ibFrames' = ibFrames + 1
    /\ LET value == active_get(ibActive, ibConn[i].user.id)
           heard == [ibConn EXCEPT ![i].last_client_activity = mono, ![i].heard = mono]
       IN
       IF ~value.present \/ value.connId # i
       THEN ibConn' = heard
       ELSE ibConn' = [heard EXCEPT ![i].pc = "touch_set", ![i].held = value]
    /\ UNCHANGED <<bkVars, tmVars, rdVars, dsVars, prVars, acVars, chVars, urVars, ibSent, ibActive, ibOut, ibMail>>

\* touch_active_room, line 127: cache.set of the value read, with a new timeout
IbTouchSet(i) ==
    /\ ibConn[i].pc = "touch_set"
    /\ ibActive' = [ibActive EXCEPT
                       ![ibConn[i].user.id] =
                          active_entry(ibConn[i].held.roomSlug, ibConn[i].held.connId,
                                       DIRECT_INBOX_ACTIVE_TTL)]
    /\ ibConn' = [ibConn EXCEPT ![i].pc = "idle", ![i].held = NoMarker]
    /\ UNCHANGED <<bkVars, tmVars, rdVars, dsVars, prVars, acVars, chVars, urVars, ibSent, ibOut, ibMail, ibFrames>>

\* receive of {"type": "set_active_room", "roomSlug": raw_slug}
IbSetActive(i, raw_slug) ==
    /\ ibConn[i].status = "joined"
    /\ ibConn[i].pc = "idle"
    /\ ibFrames < MaxInboxFrames
    /\ ibFrames' = ibFrames + 1
    /\ IF raw_slug.kind = "null"
       THEN /\ ibConn' = [ibConn EXCEPT ![i] = [ClearRead(i, "idle") EXCEPT
                                                  !.last_client_activity = mono,
                                                  !.heard = mono]]
            /\ UNCHANGED <<ibActive, ibOut>>
       ELSE IF raw_slug.kind # "string"
       THEN /\ ibOut' = [ibOut EXCEPT ![i] = Append(@, InboxError("invalid_payload"))]
            /\ ibConn' = [ibConn EXCEPT ![i].last_client_activity = mono, ![i].heard = mono]
            /\ UNCHANGED ibActive
       ELSE LET room_slug == raw_strip(raw_slug)
                room      == room_by_slug(rooms, room_slug)
            IN  IF \/ ~is_valid_room_slug(room_slug)
                   \/ room = NoRoom
                   \/ room.kind # DIRECT
                   \/ ~can_read(roleRows, room, ibConn[i].user)
                THEN /\ ibOut' = [ibOut EXCEPT ![i] = Append(@, InboxError("forbidden"))]
                     /\ ibConn' = [ibConn EXCEPT ![i].last_client_activity = mono, ![i].heard = mono]
                     /\ UNCHANGED ibActive
                ELSE /\ ibActive' = [ibActive EXCEPT
                                        ![ibConn[i].user.id] =
                                           active_entry(room_slug, i, DIRECT_INBOX_ACTIVE_TTL)]
                     /\ ibConn' = [ibConn EXCEPT ![i].last_client_activity = mono, ![i].heard = mono]
                     /\ UNCHANGED ibOut
    /\ UNCHANGED <<bkVars, tmVars, rdVars, dsVars, prVars, acVars, chVars, urVars, ibSent, ibMail>>

\* a room name as the key of the unread counts: a text without blanks
SlugText(slug) == <<slug>>

MarkReadAck(room_slug, unread) ==
    [type |-> "direct_mark_read_ack", roomSlug |-> room_slug, unread |-> unread]

\* mutant: mark_read does not ask whether the user may read the room
IbMarkRead_SkipsReadCheck(i, raw_slug) ==
    /\ ibConn[i].status = "joined"
    /\ ibConn[i].pc = "idle"
    /\ ibFrames < MaxInboxFrames
    /\ ibFrames' = ibFrames + 1
    /\ ibConn' = [ibConn EXCEPT ![i].last_client_activity = mono, ![i].heard = mono]
    /\ IF raw_slug.kind # "string"
       THEN /\ ibOut' = [ibOut EXCEPT ![i] = Append(@, InboxError("invalid_payload"))]
            /\ UNCHANGED urStore
       ELSE LET room_slug == raw_strip(raw_slug)
                room      == room_by_slug(rooms, room_slug)
                u         == ibConn[i].user.id
                current   == mark_read_counts(urStore[u], SlugText(room_slug))
            IN  IF \/ ~is_valid_room_slug(room_slug)
                   \/ room = NoRoom
                   \/ room.kind # DIRECT
                THEN /\ ibOut' = [ibOut EXCEPT ![i] = Append(@, InboxError("forbidden"))]
                     /\ UNCHANGED urStore
                ELSE \* mark_read, direct_inbox.py lines 96-107
                     /\ urStore' = [urStore EXCEPT
                                       ![u] = IF current # <<>>
                                              THEN DictValue(current) ELSE Absent]
                     /\ ibOut' = [ibOut EXCEPT
                                     ![i] = Append(@, MarkReadAck(room_slug,
                                                                  unread_state(current)))]
    /\ UNCHANGED <<bkVars, tmVars, rdVars, dsVars, prVars, acVars, chVars, urProc, urCalls, urMarks,
                   urRaced, ibSent, ibActive, ibMail>>

\* receive of {"type": "mark_read", "roomSlug": raw_slug}
IbMarkRead(i, raw_slug) ==
    /\ ibConn[i].status = "joined"
    /\ ibConn[i].pc = "idle"
    /\ ibFrames < MaxInboxFrames
    /\ ibFrames' = ibFrames + 1
    /\ ibConn' = [ibConn EXCEPT ![i].last_client_activity = mono, ![i].heard = mono]
    /\ IF raw_slug.kind # "string"
       THEN /\ ibOut' = [ibOut EXCEPT ![i] = Append(@, InboxError("invalid_payload"))]
            /\ UNCHANGED urStore
       ELSE LET room_slug == raw_strip(raw_slug)
                room      == room_by_slug(rooms, room_slug)
                u         == ibConn[i].user.id
                current   == mark_read_counts(urStore[u], SlugText(room_slug))
            IN  IF \/ ~is_valid_room_slug(room_slug)
                   \/ room = NoRoom
                   \/ room.kind # DIRECT
                   \/ ~can_read(roleRows, room, ibConn[i].user)
                THEN /\ ibOut' = [ibOut EXCEPT ![i] = Append(@, InboxError("forbidden"))]
                     /\ UNCHANGED urStore
                ELSE \* mark_read, direct_inbox.py lines 96-107
                     /\ urStore' = [urStore EXCEPT
                                       ![u] = IF current # <<>>
                                              THEN DictValue(current) ELSE Absent]
                     /\ ibOut' = [ibOut EXCEPT
                                     ![i] = Append(@, MarkReadAck(room_slug,
                                                                  unread_state(current)))]
    /\ UNCHANGED <<bkVars, tmVars, rdVars, dsVars, prVars, acVars, chVars, urProc, urCalls, urMarks,
                   urRaced, ibSent, ibActive, ibMail>>

\* mutant: a forwarded event counts as client activity
IbEvent_ResetsIdle(i) ==
    /\ ibConn[i].status = "joined"
    /\ ibConn[i].pc = "idle"
    /\ ibMail[i] # <<>>
    /\ ibOut' = [ibOut EXCEPT ![i] = Append(@, Head(ibMail[i]))]
    /\ ibMail' = [ibMail EXCEPT ![i] = Tail(@)]
    /\ ibConn' = [ibConn EXCEPT ![i].last_client_activity = mono]
    /\ UNCHANGED <<bkVars, tmVars, rdVars, dsVars, prVars, acVars, chVars, urVars, ibSent, ibActive, ibFrames>>

\* DirectInboxConsumer.direct_inbox_event: a queued event is sent to the client
IbEvent(i) ==
    /\ ibConn[i].status = "joined"
    /\ ibConn[i].pc = "idle"
    /\ ibMail[i] # <<>>
    /\ ibOut' = [ibOut EXCEPT ![i] = Append(@, Head(ibMail[i]))]
    /\ ibMail' = [ibMail EXCEPT ![i] = Tail(@)]
    /\ UNCHANGED <<bkVars, tmVars, rdVars, dsVars, prVars, acVars, chVars, urVars, ibSent, ibConn, ibActive, ibFrames>>

\* DirectInboxConsumer._heartbeat: one pass of the loop when the sleep has
\* ended; a send on a connection the watchdog has closed raises and ends the loop
IbHeartbeat(i) ==
    /\ ibConn[i].status \in {"joined", "idle_closed"}
    /\ ibConn[i].heartbeat_task = "sleeping"
    /\ ibConn[i].heartbeat_wake <= mono
    /\ IF ibConn[i].status = "joined"
       THEN /\ ibOut' = [ibOut EXCEPT ![i] = Append(@, [type |-> "ping"])]
            /\ ibConn' = [ibConn EXCEPT
                             ![i].heartbeat_wake = mono + inbox_heartbeat_interval]
       ELSE /\ ibConn' = [ibConn EXCEPT ![i].heartbeat_task = "done"]
            /\ UNCHANGED ibOut
    /\ UNCHANGED <<bkVars, tmVars, rdVars, dsVars, prVars, acVars, chVars, urVars, ibSent, ibActive, ibMail, ibFrames>>

\* DirectInboxConsumer._idle_watchdog: one pass of the loop when the sleep has ended
IbIdleWatchdog(i) ==
    /\ ibConn[i].status = "joined"
    /\ ibConn[i].idle_task = "sleeping"
    /\ ibConn[i].idle_wake <= mono
    /\ ibConn' = IF mono - ibConn[i].last_client_activity <= DIRECT_INBOX_IDLE_TIMEOUT
                 THEN [ibConn EXCEPT ![i].idle_wake = mono + inbox_idle_interval]
                 ELSE [ibConn EXCEPT ![i].status = "idle_closed",
                                     ![i].close_code = DIRECT_INBOX_CLOSE_IDLE_CODE,
                                     ![i].idle_task = "done"]
    /\ UNCHANGED <<bkVars, tmVars, rdVars, dsVars, prVars, acVars, chVars, urVars, ibSent, ibActive, ibOut, ibMail, ibFrames>>

\* time passes (the markers' timeouts are read against the clock)
IbTick ==
    /\ clock < MaxActiveTime
    /\ clock' = clock + 1
    /\ UNCHANGED <<bkVars, tmVars, rdVars, dsVars, prVars, acVars, rooms, roleRows, conn, rlCache, messages, mailbox, outbox,
                   nframes, roleEdited, rlHist, rlOverlap, rlWindows, urVars, ibVars>>

\* room names a client may put in roomSlug
InboxRawSlugs ==
    {NullSlug, NonString, SlugString(DirectSlug, FALSE), SlugString(DirectSlug2, TRUE),
     SlugString(PrivateSlug, FALSE), SlugString("missing123", FALSE),
     SlugString("public/bad", FALSE)}

\* SpecActive: two inbox connections, both of user 1 or of users 1 and 2
AvNext ==
    \/ IbTick
    \/ \E i \in InboxConns, u \in {1, 2} :
          (i = "i1" => u = 1) /\ IbConnect(i, AuthUser(u))
    \/ \E i \in InboxConns : IbDisconnect(i)
    \/ \E i \in InboxConns : IbClearDelete(i)
    \/ \E i \in InboxConns : IbClosed(i)
    \/ \E i \in InboxConns : IbPing(i)
    \/ \E i \in InboxConns : IbTouchSet(i)
    \/ \E i \in InboxConns, raw \in InboxRawSlugs : IbSetActive(i, raw)

\* ---- receive, lines 151-165, and _build_direct_inbox_targets ----

\* lines 266-272: the two ids of the pair key, none when it does not parse
pair_user_ids(room) ==
    LET key == room.direct_pair_key IN
    IF key = None \/ Len(key) = 0 \/ FirstIndex(key, ":") = 0 THEN {}
    ELSE LET cut    == FirstIndex(key, ":")
             first  == SubSeq(key, 1, cut - 1)
             second == SubSeq(key, cut + 1, Len(key))
         IN  IF IntOk(first) /\ IntOk(second)
             THEN {IntValue(first), IntValue(second)}
             ELSE {}

\* lines 260-290: the holders of a READ role, cut down to the pair key, and
\* the users of the pair key that are missing among them
participants(rows, room) ==
    LET pair   == pair_user_ids(room)
        byRole == {r.user : r \in {x \in rows : x.room = room.slug /\ x.role \in READ_ROLES}}
        seen   == IF pair = {} THEN byRole ELSE byRole \cap pair
    IN  IF pair # {} /\ Cardinality(seen) < Cardinality(pair)
        THEN seen \cup (pair \cap InboxUserIds)
        ELSE seen

\* mutant: every participant but the sender is marked unread, active or not
target_counts_IgnoreActive(p, sender_id, room) ==
    IF p = sender_id
    THEN mark_read_counts(urStore[p], SlugText(room.slug))
    ELSE mark_unread_counts(urStore[p], SlugText(room.slug))

\* lines 305-308: the counts mark_read or mark_unread leaves for participant p
target_counts(p, sender_id, room) ==
    IF p = sender_id \/ is_room_active(ibActive, p, room.slug)
    THEN mark_read_counts(urStore[p], SlugText(room.slug))
    ELSE mark_unread_counts(urStore[p], SlugText(room.slug))

\* lines 310-333: the payload for participant p
target_payload(p, sender_id, room, message, everyone) ==
    LET counts == target_counts(p, sender_id, room)
        peers  == everyone \ {p}
    IN  [type |-> "direct_inbox_item",
         item |-> [slug |-> room.slug,
                   peer |-> IF peers = {} THEN 0 ELSE CHOOSE q \in peers : TRUE,
                   lastMessage |-> message],
         unread |-> [roomSlug |-> room.slug,
                     isUnread |-> dict_get(counts, SlugText(room.slug), 0) > 0,
                     dialogs |-> unread_state(counts).dialogs,
                     slugs |-> unread_state(counts).slugs,
                     counts |-> counts]]

\* the inbox connections in the group of user u (from accept to group_discard)
InboxMembers(u) ==
    {i \in InboxConns : ibConn[i].status \in {"joined", "closing"} /\ ibConn[i].user.id = u}

\* mutant: every inbox connection gets every update
InboxTargets_Broadcast(c) ==
    /\ conn[c].pc = "targets"
    /\ LET room   == room_by_slug(rooms, conn[c].room.slug)
           sender == conn[c].user.id
           found  == room # NoRoom /\ room.kind = DIRECT
           ps     == IF found THEN participants(roleRows, room) ELSE {}
       IN
       /\ urStore' = [u \in InboxUserIds |->
                        IF u \in ps
                        THEN LET counts == target_counts(u, sender, room)
                             IN  IF counts # <<>> THEN DictValue(counts) ELSE Absent
                        ELSE urStore[u]]
       /\ ibMail' = [i \in InboxConns |->
                       IF ps # {} /\ ibConn[i].status \in {"joined", "closing"}
                       THEN Append(ibMail[i],
                                   target_payload(CHOOSE q \in ps : TRUE, sender, room,
                                                  conn[c].message, ps))
                       ELSE ibMail[i]]
       /\ ibSent' = [u \in InboxUserIds |-> IF u \in ps THEN ibSent[u] + 1 ELSE ibSent[u]]
    /\ conn' = [conn EXCEPT ![c].pc = "idle", ![c].message = <<>>]
    /\ UNCHANGED <<bkVars, tmVars, rdVars, dsVars, prVars, acVars, clock, rooms, roleRows, rlCache, messages, mailbox, outbox,
                   nframes, roleEdited, rlHist, rlOverlap, rlWindows,
                   urProc, urCalls, urMarks, urRaced, ibConn, ibActive, ibOut, ibFrames>>

\* receive, lines 151-165: the targets are built (each participant's unread
\* state is updated) and each payload is sent to its participant's group
InboxTargets(c) ==
    /\ conn[c].pc = "targets"
    /\ LET room   == room_by_slug(rooms, conn[c].room.slug)
           sender == conn[c].user.id
           found  == room # NoRoom /\ room.kind = DIRECT
           ps     == IF found THEN participants(roleRows, room) ELSE {}
       IN
       /\ urStore' = [u \in InboxUserIds |->
                        IF u \in ps
                        THEN LET counts == target_counts(u, sender, room)
                             IN  IF counts # <<>> THEN DictValue(counts) ELSE Absent
                        ELSE urStore[u]]
       /\ ibMail' = [i \in InboxConns |->
                       IF \E u \in ps : i \in InboxMembers(u)
                       THEN Append(ibMail[i],
                                   target_payload(ibConn[i].user.id, sender, room,
                                                  conn[c].message, ps))
                       ELSE ibMail[i]]
       /\ ibSent' = [u \in InboxUserIds |-> IF u \in ps THEN ibSent[u] + 1 ELSE ibSent[u]]
    /\ conn' = [conn EXCEPT ![c].pc = "idle", ![c].message = <<>>]
    /\ UNCHANGED <<bkVars, tmVars, rdVars, dsVars, prVars, acVars, clock, rooms, roleRows, rlCache, messages, mailbox, outbox,
                   nframes, roleEdited, rlHist, rlOverlap, rlWindows,
                   urProc, urCalls, urMarks, urRaced, ibConn, ibActive, ibOut, ibFrames>>

\* ChatConsumer._idle_watchdog: one pass of the loop when the sleep has ended
ChatIdleWatchdog(c) ==
    /\ conn[c].status = "joined"
    /\ conn[c].idle_task = "sleeping"
    /\ conn[c].idle_wake <= mono
    /\ conn' = IF mono - conn[c].last_activity <= CHAT_WS_IDLE_TIMEOUT
               THEN [conn EXCEPT ![c].idle_wake = mono + chat_idle_interval]
               ELSE [conn EXCEPT ![c].status = "idle_closed",
                                 ![c].close_code = CHAT_CLOSE_IDLE_CODE,
                                 ![c].idle_task = "done"]
    /\ UNCHANGED <<notChat, clock, rooms, roleRows, rlCache, messages, mailbox, outbox,
                   nframes, roleEdited, rlHist, rlOverlap, rlWindows>>

ChNext ==
    \/ \E row \in roleRows, role \in Roles : SetRole(row, role)
    \/ \E c \in Conns, user \in ChatUsers, slug \in PathSlugs :
          Connect(c, user, slug)
    \/ \E c \in Conns : Disconnect(c)
    \/ \E c \in Conns, frame \in Frames : Receive(c, frame, MaxFrames)
    \/ \E c \in Conns : RateGet(c)
    \/ \E c \in Conns : RateSet(c)
    \/ \E c \in Conns : SaveMessage(c)
    \/ \E c \in Conns : Publish(c)
    \/ \E c \in Conns : InboxTargets(c)
    \/ \E c \in Conns : ChatMessage(c)

\* SpecInbox: users 1 and 2 write to their direct room (c1 is user 1's connection,
\* c2 user 2's) while user 2 (i1) and an outsider, user 3 (i2), hold inbox
\* connections
InNext ==
    \/ \E c \in Conns :
          Connect(c, AuthUser(IF c = "c1" THEN 1 ELSE 2), DirectSlug)
    \/ \E c \in Conns, frame \in RateFrames : Receive(c, frame, MaxInboxSends)
    \/ \E c \in Conns : RateGet(c)
    \/ \E c \in Conns : RateSet(c)
    \/ \E c \in Conns : SaveMessage(c)
    \/ \E c \in Conns : Publish(c)
    \/ \E c \in Conns : InboxTargets(c)
    \/ \E i \in InboxConns :
          IbConnect(i, AuthUser(IF i = "i1" THEN 2 ELSE 3))
    \/ \E i \in InboxConns, raw \in {NullSlug, SlugString(DirectSlug, FALSE)} :
          IbSetActive(i, raw)
    \/ \E i \in InboxConns : IbClearDelete(i)
    \/ \E i \in InboxConns : IbEvent(i)

-----------------------------------------------------------------------------
(* Presence aggregator: PresenceConsumer and its two maps in the shared     *)
(* cache (the online users by username, the guests by client ip).  Each     *)
(* helper of the consumer reads the map, changes it and writes it back;     *)
(* here one helper call is one step.                                        *)

PresenceConns == {"p1", "p2"}

PresenceNames == {"alice", "bob"}

PresenceIps == {"203.0.113.1"}

\* get_client_ip_from_scope found no address
NoIp == ""

PRESENCE_GROUP_AUTH == "presence_auth"

PRESENCE_GROUP_GUEST == "presence_guest"

CloseCodes == {1000, 1001, 1006}

\* a stored count: a number, or something int() refuses
Num(n) == [numeric |-> TRUE, n |-> n]

NotANumber == [numeric |-> FALSE, n |-> 0]

\* try: int(info.get("count", 0))  except (TypeError, ValueError): 0
int_or_zero(raw) == IF raw.numeric THEN raw.n ELSE 0

\* a key the map does not hold; .get() defaults: count 0, last_seen 0, grace_until 0
NoEntry == [present |-> FALSE, count |-> Num(0), last_seen |-> 0, grace_until |-> 0]

presence_entry(count, last_seen, grace_until) ==
    [present |-> TRUE, count |-> count, last_seen |-> last_seen,
     grace_until |-> grace_until]

\* mutant: a connect stores a count of 1 whatever the count was
add_user_CountOne(data, username, now) ==
    [data EXCEPT ![username] = presence_entry(Num(1), now, 0)]

add_user(data, username, now) ==
    [data EXCEPT ![username] = presence_entry(Num(data[username].count.n + 1), now, 0)]

\* mutant: the last connection's entry is dropped whatever the close code
remove_user_NoGrace(data, username, graceful, now) ==
    IF ~data[username].present THEN data
    ELSE LET count == data[username].count.n - 1 IN
         IF count <= 0 THEN [data EXCEPT ![username] = NoEntry]
         ELSE [data EXCEPT ![username] = presence_entry(Num(count), now, 0)]

remove_user(data, username, graceful, now) ==
    IF ~data[username].present THEN data
    ELSE LET count == data[username].count.n - 1 IN
         IF count <= 0
         THEN IF graceful \/ PRESENCE_GRACE <= 0
              THEN [data EXCEPT ![username] = NoEntry]
              ELSE [data EXCEPT ![username] =
                        presence_entry(Num(0), now, now + PRESENCE_GRACE)]
         ELSE [data EXCEPT ![username] = presence_entry(Num(count), now, 0)]

touch_user(data, username, now) ==
    IF ~data[username].present
    THEN [data EXCEPT ![username] = presence_entry(Num(1), now, 0)]
    ELSE [data EXCEPT ![username].last_seen = now, ![username].grace_until = 0]

\* mutant: a grace window still counts at the moment it runs out
visible_user_GraceInclusive(info, now) ==
    LET count == int_or_zero(info.count) IN
    \/ count > 0 /\ (now - info.last_seen) <= PRESENCE_TTL
    \/ /\ count <= 0
       /\ info.grace_until # 0
       /\ info.grace_until >= now
       /\ (now - info.last_seen) <= PRESENCE_TTL

\* the test of _get_online's loop
visible_user(info, now) ==
    LET count == int_or_zero(info.count) IN
    \/ count > 0 /\ (now - info.last_seen) <= PRESENCE_TTL
    \/ /\ count <= 0
       /\ info.grace_until # 0
       /\ info.grace_until > now
       /\ (now - info.last_seen) <= PRESENCE_TTL

\* the map _get_online leaves in the cache
get_online_cleaned(data, now) ==
    [k \in DOMAIN data |->
        IF data[k].present /\ visible_user(data[k], now) THEN data[k] ELSE NoEntry]

\* the usernames of the list _get_online returns
get_online(data, now) ==
    {k \in DOMAIN data : get_online_cleaned(data, now)[k].present}

add_guest(data, ip, now) ==
    IF ip = NoIp THEN data
    ELSE [data EXCEPT ![ip] = presence_entry(Num(int_or_zero(data[ip].count) + 1), now, 0)]

remove_guest(data, ip, graceful, now) ==
    IF ip = NoIp THEN data
    ELSE LET count == int_or_zero(data[ip].count) - 1 IN
         IF count <= 0
         THEN IF graceful \/ PRESENCE_GRACE <= 0
              THEN [data EXCEPT ![ip] = NoEntry]
              ELSE [data EXCEPT ![ip] =
                        presence_entry(Num(0), now, now + PRESENCE_GRACE)]
         ELSE [data EXCEPT ![ip] = presence_entry(Num(count), now, 0)]

touch_guest(data, ip, now) ==
    IF ip = NoIp THEN data
    ELSE IF ~data[ip].present
         THEN [data EXCEPT ![ip] = presence_entry(Num(1), now, 0)]
         ELSE [data EXCEPT ![ip] = presence_entry(data[ip].count, now, 0)]

\* the test of _get_guest_count's loop
visible_guest(info, now) ==
    LET count == int_or_zero(info.count) IN
    \/ count > 0 /\ (now - info.last_seen) <= PRESENCE_TTL
    \/ /\ count <= 0
       /\ info.grace_until # 0
       /\ info.grace_until > now
       /\ (now - info.last_seen) <= PRESENCE_TTL

get_guest_cleaned(data, now) ==
    [k \in DOMAIN data |->
        IF data[k].present /\ visible_guest(data[k], now) THEN data[k] ELSE NoEntry]

get_guest_count(data, now) ==
    Cardinality({k \in DOMAIN data : get_guest_cleaned(data, now)[k].present})

\* mutant: the guest topic is sent what the authenticated topic is sent
guest_event_WithOnline(online, guests) ==
    [type |-> "presence.update", online |-> online, guests |-> guests]

\* the two events of _broadcast
guest_event(online, guests) == [type |-> "presence.update", guests |-> guests]

auth_event(online, guests) ==
    [type |-> "presence.update", online |-> online, guests |-> guests]

\* presence_update: the frame sent for an event
presence_payload(event) ==
    [k \in (DOMAIN event) \cap {"online", "guests"} |-> event[k]]

NoPresenceConn ==
    [status |-> "new", is_guest |-> FALSE, username |-> "", guest_ip |-> NoIp,
     group_name |-> "", next_touch |-> 0,
     \* _last_client_activity; the two tasks and the times their sleeps end
     last_client_activity |-> 0,
     heartbeat_task |-> "none", heartbeat_wake |-> 0,
     idle_task |-> "none", idle_wake |-> 0,
     \* history: when the client was last heard (connect, frame), when a ping of
     \* it was last acted on, and how many of its pings fell inside the interval
     heard |-> 0, touched |-> 0 - 1, throttled |-> 0,
     \* the cache helper the connection is in: where it is ("idle", "read",
     \* "write", "broadcast"), which helper ("add", "remove"), the map cache.get
     \* gave it and the graceful argument; history: the helper stored a map
     \* made from a copy that another connection had replaced meanwhile
     pc |-> "idle", op |-> "none", local |-> <<>>, graceful |-> FALSE, raced |-> FALSE]

\* the sleeps of PresenceConsumer._heartbeat and _idle_watchdog
presence_heartbeat_interval == Max(TimerFloor, PRESENCE_HEARTBEAT)

presence_idle_interval ==
    Max(TimerFloor, Min(PRESENCE_HEARTBEAT, PRESENCE_IDLE_TIMEOUT))

\* the scopes a presence connection may come with
PresenceScopes ==
    {[is_guest |-> FALSE, username |-> n, guest_ip |-> NoIp] : n \in PresenceNames}
    \cup {[is_guest |-> TRUE, username |-> "", guest_ip |-> ip] :
             ip \in PresenceIps \cup {NoIp}}

NoLeft == [at |-> 0 - 1, stored |-> FALSE]

NoSnapshot ==
    [at |-> 0 - 1, online |-> {}, guests |-> 0,
     \* when each map was last read, and whether that read wrote the map back
     users_at |-> 0 - 1, guests_at |-> 0 - 1,
     wrote_users |-> FALSE, wrote_guests |-> FALSE]

PrInit ==
    /\ prConn = [p \in PresenceConns |-> NoPresenceConn]
    /\ prUsers = [n \in PresenceNames |-> NoEntry]
    /\ prGuests = [ip \in PresenceIps |-> NoEntry]
    /\ prMail = [p \in PresenceConns |-> <<>>]
    /\ prOut = [p \in PresenceConns |-> {}]
    /\ prPings = 0
    /\ prLast = NoSnapshot
    /\ prLeft = [n \in PresenceNames |-> NoLeft]

\* _broadcast from the maps data and guest_data, with the connections as in conns:
\* both snapshot reads (each writes its cleaned map back), then one event per topic
Broadcast(data, guest_data, conns) ==
    LET online == get_online(data, clock)
        guests == get_guest_count(guest_data, clock)
        queued(p) ==
            IF conns[p].status # "open" THEN prMail[p]
            ELSE IF conns[p].group_name = PRESENCE_GROUP_GUEST
                 THEN Append(prMail[p], guest_event(online, guests))
                 ELSE Append(prMail[p], auth_event(online, guests))
    IN /\ prUsers' = get_online_cleaned(data, clock)
       /\ prGuests' = get_guest_cleaned(guest_data, clock)
       /\ prMail' = [p \in PresenceConns |-> queued(p)]
       /\ prLast' = [at |-> clock, online |-> online, guests |-> guests,
                     users_at |-> clock, guests_at |-> clock,
                     wrote_users |-> get_online_cleaned(data, clock) # data,
                     wrote_guests |-> get_guest_cleaned(guest_data, clock) # guest_data]

\* connections are opened in the order p1, p2, p3
PrInOrder(p) ==
    \A q \in PresenceConns :
        (q = "p1" /\ p # "p1") \/ (q = "p2" /\ p = "p3") => prConn[q].status # "new"

OpenFor(conns, username) ==
    {q \in PresenceConns :
        /\ conns[q].status = "open"
        /\ ~conns[q].is_guest
        /\ conns[q].username = username}

\* connect
PrConnect(p, scope) ==
    /\ prConn[p].status = "new"
    /\ PrInOrder(p)
    /\ LET conns == [prConn EXCEPT ![p] =
                        [status |-> "open", is_guest |-> scope.is_guest,
                         username |-> scope.username, guest_ip |-> scope.guest_ip,
                         group_name |-> IF scope.is_guest THEN PRESENCE_GROUP_GUEST
                                        ELSE PRESENCE_GROUP_AUTH,
                         next_touch |-> 0,
                         last_client_activity |-> mono,
                         heard |-> mono, touched |-> 0 - 1, throttled |-> 0,
                         pc |-> "idle", op |-> "none", local |-> <<>>,
                         graceful |-> FALSE, raced |-> FALSE,
                         heartbeat_task |-> "sleeping",
                         heartbeat_wake |-> mono + presence_heartbeat_interval,
                         idle_task |-> IF PRESENCE_IDLE_TIMEOUT > 0
                                       THEN "sleeping" ELSE "none",
                         idle_wake |-> IF PRESENCE_IDLE_TIMEOUT > 0
                                       THEN mono + presence_idle_interval ELSE 0]]
           data == IF scope.is_guest THEN prUsers
                   ELSE add_user(prUsers, scope.username, clock)
           guest_data == IF scope.is_guest
                         THEN add_guest(prGuests, scope.guest_ip, clock)
                         ELSE prGuests
       IN /\ prConn' = conns
          /\ Broadcast(data, guest_data, conns)
    /\ prLeft' = IF scope.is_guest THEN prLeft
                 ELSE [prLeft EXCEPT ![scope.username] = NoLeft]
    /\ UNCHANGED <<prOut, prPings>>
    /\ UNCHANGED <<bkVars, tmVars, rdVars, dsVars, acVars, urVars, ibVars, rooms, roleRows, conn, rlCache,
                   messages, mailbox, outbox, nframes, roleEdited, rlHist,
                   rlOverlap, rlWindows, clock>>

\* disconnect(close_code)
PrDisconnect(p, close_code) ==
    /\ prConn[p].status \in {"open", "idle_closed"}
    \* a connection the watchdog closed is torn down with the watchdog's code
    /\ prConn[p].status = "idle_closed" <=> close_code = PRESENCE_CLOSE_IDLE_CODE
    /\ LET me == prConn[p]
           graceful == close_code \in {1000, 1001}
           conns == [prConn EXCEPT ![p].status = "closed",
                                   ![p].heartbeat_task = cancelled(@),
                                   ![p].idle_task = cancelled(@)]
           data == IF me.is_guest THEN prUsers
                   ELSE remove_user(prUsers, me.username, graceful, clock)
           guest_data == IF me.is_guest
                         THEN remove_guest(prGuests, me.guest_ip, graceful, clock)
                         ELSE prGuests
       IN /\ prConn' = conns
          /\ Broadcast(data, guest_data, conns)
          /\ prLeft' = IF /\ ~me.is_guest
                          /\ ~graceful
                          /\ OpenFor(prConn, me.username) = {p}
                       THEN [prLeft EXCEPT ![me.username] =
                                [at |-> clock, stored |-> prUsers[me.username].present]]
                       ELSE prLeft
    /\ UNCHANGED <<prOut, prPings>>
    /\ UNCHANGED <<bkVars, tmVars, rdVars, dsVars, acVars, urVars, ibVars, rooms, roleRows, conn, rlCache,
                   messages, mailbox, outbox, nframes, roleEdited, rlHist,
                   rlOverlap, rlWindows, clock>>

\* the frames a presence client may send: none or empty text, text that is not
\* JSON, JSON that is no object, an object of another type, a ping
PresenceFrames == {"empty", "invalid_json", "not_object", "other_type", "ping"}

\* mutant: every ping is acted on
PrReceive_NoThrottle(p, frame, budget) ==
    /\ prConn[p].status = "open"
    /\ prPings < budget
    /\ prPings' = prPings + 1
    /\ IF frame = "empty"
       THEN UNCHANGED <<prConn, prUsers, prGuests>>
       ELSE IF frame # "ping"
       THEN /\ prConn' = [prConn EXCEPT ![p].last_client_activity = mono,
                                        ![p].heard = mono,
                                        ![p].status =
                                            IF frame = "not_object" THEN "crashed" ELSE @]
            /\ UNCHANGED <<prUsers, prGuests>>
       ELSE /\ prConn' = [prConn EXCEPT ![p].last_client_activity = mono,
                                        ![p].heard = mono,
                                        ![p].touched = clock,
                                        ![p].next_touch =
                                            clock + PRESENCE_TOUCH_INTERVAL]
            /\ IF prConn[p].is_guest
               THEN /\ prGuests' = touch_guest(prGuests, prConn[p].guest_ip, clock)
                    /\ UNCHANGED prUsers
               ELSE /\ prUsers' = touch_user(prUsers, prConn[p].username, clock)
                    /\ UNCHANGED prGuests
    /\ UNCHANGED <<prMail, prOut, prLast, prLeft>>
    /\ UNCHANGED <<bkVars, tmVars, rdVars, dsVars, acVars, urVars, ibVars, rooms, roleRows, conn, rlCache,
                   messages, mailbox, outbox, nframes, roleEdited, rlHist,
                   rlOverlap, rlWindows, clock>>

\* receive(text_data): an empty frame is dropped before anything is read; the
\* others reset the idle clock; JSON that is no object has no get() and the
\* handler ends with AttributeError; a ping is acted on when the touch interval
\* of the connection has run out
PrReceive(p, frame, budget) ==
    /\ prConn[p].status = "open"
    /\ prPings < budget
    /\ prPings' = prPings + 1
    /\ IF frame = "empty"
       THEN UNCHANGED <<prConn, prUsers, prGuests>>
       ELSE IF frame # "ping"
       THEN /\ prConn' = [prConn EXCEPT ![p].last_client_activity = mono,
                                        ![p].heard = mono,
                                        ![p].status =
                                            IF frame = "not_object" THEN "crashed" ELSE @]
            /\ UNCHANGED <<prUsers, prGuests>>
       ELSE IF clock < prConn[p].next_touch
       THEN /\ prConn' = [prConn EXCEPT ![p].last_client_activity = mono,
                                        ![p].heard = mono,
                                        ![p].throttled = @ + 1]
            /\ UNCHANGED <<prUsers, prGuests>>
       ELSE /\ prConn' = [prConn EXCEPT ![p].last_client_activity = mono,
                                        ![p].heard = mono,
                                        ![p].touched = clock,
                                        ![p].next_touch =
                                            clock + PRESENCE_TOUCH_INTERVAL]
            /\ IF prConn[p].is_guest
               THEN /\ prGuests' = touch_guest(prGuests, prConn[p].guest_ip, clock)
                    /\ UNCHANGED prUsers
               ELSE /\ prUsers' = touch_user(prUsers, prConn[p].username, clock)
                    /\ UNCHANGED prGuests
    /\ UNCHANGED <<prMail, prOut, prLast, prLeft>>
    /\ UNCHANGED <<bkVars, tmVars, rdVars, dsVars, acVars, urVars, ibVars, rooms, roleRows, conn, rlCache,
                   messages, mailbox, outbox, nframes, roleEdited, rlHist,
                   rlOverlap, rlWindows, clock>>

\* receive of a {"type": "ping"} frame
PrPing(p) == PrReceive(p, "ping", MaxPresencePings)

\* presence_update: the channel layer hands the connection its next event
PrUpdate(p) ==
    /\ prConn[p].status = "open"
    /\ prMail[p] # <<>>
    /\ prMail' = [prMail EXCEPT ![p] = Tail(@)]
    /\ prOut' = [prOut EXCEPT ![p] = @ \cup {presence_payload(Head(prMail[p]))}]
    /\ UNCHANGED <<prConn, prUsers, prGuests, prPings, prLast, prLeft>>
    /\ UNCHANGED <<bkVars, tmVars, rdVars, dsVars, acVars, urVars, ibVars, rooms, roleRows, conn, rlCache,
                   messages, mailbox, outbox, nframes, roleEdited, rlHist,
                   rlOverlap, rlWindows, clock>>

\* PresenceConsumer._heartbeat: one pass of the loop when the sleep has ended; a
\* send on a connection the watchdog has closed raises and ends the loop
PrHeartbeat(p) ==
    /\ prConn[p].status \in {"open", "idle_closed"}
    /\ prConn[p].heartbeat_task = "sleeping"
    /\ prConn[p].heartbeat_wake <= mono
    /\ IF prConn[p].status = "open"
       THEN /\ prOut' = [prOut EXCEPT ![p] = @ \cup {[type |-> "ping"]}]
            /\ prConn' = [prConn EXCEPT
                             ![p].heartbeat_wake = mono + presence_heartbeat_interval]
       ELSE /\ prConn' = [prConn EXCEPT ![p].heartbeat_task = "done"]
            /\ UNCHANGED prOut
    /\ UNCHANGED <<prUsers, prGuests, prMail, prPings, prLast, prLeft>>
    /\ UNCHANGED <<bkVars, tmVars, rdVars, dsVars, acVars, urVars, ibVars, rooms, roleRows, conn, rlCache,
                   messages, mailbox, outbox, nframes, roleEdited, rlHist,
                   rlOverlap, rlWindows, clock>>

\* PresenceConsumer._idle_watchdog: one pass of the loop when the sleep has ended
PrIdleWatchdog(p) ==
    /\ prConn[p].status = "open"
    /\ prConn[p].idle_task = "sleeping"
    /\ prConn[p].idle_wake <= mono
    /\ prConn' = IF mono - prConn[p].last_client_activity <= PRESENCE_IDLE_TIMEOUT
                 THEN [prConn EXCEPT ![p].idle_wake = mono + presence_idle_interval]
                 ELSE [prConn EXCEPT ![p].status = "idle_closed",
                                     ![p].idle_task = "done"]
    /\ UNCHANGED <<prUsers, prGuests, prMail, prOut, prPings, prLast, prLeft>>
    /\ UNCHANGED <<bkVars, tmVars, rdVars, dsVars, acVars, urVars, ibVars, rooms, roleRows, conn, rlCache,
                   messages, mailbox, outbox, nframes, roleEdited, rlHist,
                   rlOverlap, rlWindows, clock>>

PrTick ==
    /\ clock < MaxPresenceTime
    /\ clock' = clock + 1
    /\ UNCHANGED <<bkVars, tmVars, rdVars, dsVars, prVars, acVars, urVars, ibVars, rooms, roleRows, conn,
                   rlCache, messages, mailbox, outbox, nframes, roleEdited, rlHist,
                   rlOverlap, rlWindows>>

PrNext ==
    \/ PrTick
    \/ \E p \in PresenceConns, scope \in PresenceScopes : PrConnect(p, scope)
    \/ \E p \in PresenceConns, close_code \in CloseCodes : PrDisconnect(p, close_code)
    \/ \E p \in PresenceConns : PrPing(p)
    \/ \E p \in PresenceConns : PrUpdate(p)

\* stored entries a snapshot read may meet, whoever wrote them
PvCounts == {Num(0 - 1), Num(0), Num(1), NotANumber}

PvEntries ==
    {presence_entry(c, l, g) : c \in PvCounts, l \in 0..MaxPresenceTime,
                               g \in 0..MaxPresenceTime}

PvInit ==
    /\ prConn = [p \in PresenceConns |-> NoPresenceConn]
    /\ \E e \in PvEntries :
          prUsers = [n \in PresenceNames |-> IF n = "alice" THEN e ELSE NoEntry]
    /\ \E e \in PvEntries : prGuests = [ip \in PresenceIps |-> e]
    /\ prMail = [p \in PresenceConns |-> <<>>]
    /\ prOut = [p \in PresenceConns |-> {}]
    /\ prPings = 0
    /\ prLast = NoSnapshot
    /\ prLeft = [n \in PresenceNames |-> NoLeft]

\* mutant: the cleaned map is returned but never stored
PvGetOnline_NoWriteBack ==
    /\ prUsers' = prUsers
    /\ prLast' = [prLast EXCEPT !.at = clock, !.online = get_online(prUsers, clock),
                                !.users_at = clock, !.wrote_users = FALSE]
    /\ UNCHANGED <<prConn, prGuests, prMail, prOut, prPings, prLeft>>
    /\ UNCHANGED <<bkVars, tmVars, rdVars, dsVars, acVars, urVars, ibVars, rooms, roleRows, conn, rlCache,
                   messages, mailbox, outbox, nframes, roleEdited, rlHist,
                   rlOverlap, rlWindows, clock>>

\* _get_online: the map is stored again when cleaned != data
PvGetOnline ==
    /\ prUsers' = get_online_cleaned(prUsers, clock)
    /\ prLast' = [prLast EXCEPT !.at = clock, !.online = get_online(prUsers, clock),
                                !.users_at = clock,
                                !.wrote_users =
                                    get_online_cleaned(prUsers, clock) # prUsers]
    /\ UNCHANGED <<prConn, prGuests, prMail, prOut, prPings, prLeft>>
    /\ UNCHANGED <<bkVars, tmVars, rdVars, dsVars, acVars, urVars, ibVars, rooms, roleRows, conn, rlCache,
                   messages, mailbox, outbox, nframes, roleEdited, rlHist,
                   rlOverlap, rlWindows, clock>>

\* _get_guest_count
PvGetGuestCount ==
    /\ prGuests' = get_guest_cleaned(prGuests, clock)
    /\ prLast' = [prLast EXCEPT !.at = clock,
                                !.guests = get_guest_count(prGuests, clock),
                                !.guests_at = clock,
                                !.wrote_guests =
                                    get_guest_cleaned(prGuests, clock) # prGuests]
    /\ UNCHANGED <<prConn, prUsers, prMail, prOut, prPings, prLeft>>
    /\ UNCHANGED <<bkVars, tmVars, rdVars, dsVars, acVars, urVars, ibVars, rooms, roleRows, conn, rlCache,
                   messages, mailbox, outbox, nframes, roleEdited, rlHist,
                   rlOverlap, rlWindows, clock>>

PvNext ==
    \/ PrTick
    \/ PvGetOnline
    \/ PvGetGuestCount

-----------------------------------------------------------------------------
(* Direct-chat start: api.direct_start and the helpers it calls.  A request  *)
(* is a process whose SQL statements are single steps; requests of different *)
(* users, or two requests of one user, run side by side on the Room and      *)
(* ChatRole tables.                                                          *)

DsRequests == {"r1", "r2"}

DsUserIds == {1, 2, 3}

\* auth_user.username by id
DsUsername(id) == CASE id = 1 -> "owner" [] id = 2 -> "member" [] OTHER -> "other"

\* the usernames a request may name after _normalize_username
DsTargetNames == {"owner", "member", "other", "missing", ""}

\* User.objects.filter(username=...).first(), 0 for None
user_by_name(name) ==
    IF \E id \in DsUserIds : DsUsername(id) = name
    THEN CHOOSE id \in DsUserIds : DsUsername(id) = name
    ELSE 0

\* str(int)
str_int(n) == CASE n = 1 -> <<"1">> [] n = 2 -> <<"2">> [] OTHER -> <<"3">>

\* mutant: the pair key keeps the order initiator:target
direct_pair_key_Unsorted(user_a_id, user_b_id) ==
    str_int(user_a_id) \o <<":">> \o str_int(user_b_id)

\* _direct_pair_key: f"{low}:{high}" of the sorted ids
direct_pair_key(user_a_id, user_b_id) ==
    LET low == IF user_a_id <= user_b_id THEN user_a_id ELSE user_b_id
        high == IF user_a_id <= user_b_id THEN user_b_id ELSE user_a_id
    IN str_int(low) \o <<":">> \o str_int(high)

\* _direct_room_slug: "dm_" and 24 hex digits of HMAC-SHA256(salt, pair_key), as a
\* table over the keys two of the three users can form; distinct keys get distinct
\* digests
direct_room_slug(pair_key) ==
    CASE pair_key = <<"1", ":", "2">> -> DirectSlug
      [] pair_key = <<"1", ":", "3">> -> DirectSlug2
      [] pair_key = <<"2", ":", "3">> -> DirectSlug3
      [] pair_key = <<"2", ":", "1">> -> "dm_21aaaa"
      [] pair_key = <<"3", ":", "1">> -> "dm_31bbbb"
      [] pair_key = <<"3", ":", "2">> -> "dm_32cccc"
      [] pair_key = <<"1", ":", "1">> -> "dm_11dddd"
      [] pair_key = <<"2", ":", "2">> -> "dm_22eeee"
      [] OTHER -> "dm_33ffff"

\* Room.objects.filter(direct_pair_key=pair_key).first()
room_by_pair_key(table, pair_key) ==
    IF \E r \in table : r.direct_pair_key = pair_key
    THEN CHOOSE r \in table : r.direct_pair_key = pair_key
    ELSE NoRoom

\* mutant: the table takes every row
insert_conflicts_NoUnique(table, row) == FALSE

\* the unique constraints of Room: slug, and direct_pair_key where it is not NULL
insert_conflicts(table, row) ==
    \E r \in table :
        \/ r.slug = row.slug
        \/ row.direct_pair_key # None /\ r.direct_pair_key = row.direct_pair_key

\* _create_or_get_direct_room after get_or_create: a row of another kind is
\* turned into a DIRECT room, an empty slug is filled in
repair_direct(room, slug) ==
    [room EXCEPT !.kind = DIRECT, !.slug = IF room.slug = "" THEN slug ELSE room.slug]

\* _ensure_role: ChatRole.objects.get_or_create(room, user, defaults role)
ensure_role(rows, room_slug, user_id, role) ==
    IF \E row \in rows : row.room = room_slug /\ row.user = user_id THEN rows
    ELSE rows \cup {[room |-> room_slug, user |-> user_id, role |-> role]}

\* _ensure_direct_roles
ensure_direct_roles(rows, room_slug, initiator, peer, created) ==
    ensure_role(ensure_role(rows, room_slug, initiator,
                            IF created THEN OWNER ELSE MEMBER),
                room_slug, peer, MEMBER)

IdleRequest ==
    [pc |-> "idle", initiator |-> 0, target |-> 0, pair_key |-> None, slug |-> "",
     attempt |-> 0, room |-> NoRoom, created |-> FALSE, error |-> "",
     collided |-> FALSE, inserts |-> 0, seq |-> 0]

Response(req, status) ==
    [initiator |-> req.initiator, target |-> req.target, status |-> status,
     slug |-> IF status = 200 THEN req.room.slug ELSE "",
     created |-> req.created, collided |-> req.collided,
     seq |-> IF status = 200 /\ req.created THEN req.seq ELSE 0]

DsInit ==
    /\ dsReq = [r \in DsRequests |-> IdleRequest]
    /\ dsResp = {}
    /\ dsStarts = 0

dsRest == <<bkVars, tmVars, rdVars, acVars, urVars, ibVars, prVars, clock, conn, rlCache, messages, mailbox,
            outbox, nframes, roleEdited, rlHist, rlOverlap, rlWindows>>

\* requests are taken in the order r1, r2
DsInTurn(r) == r = "r2" => dsReq["r1"].pc # "idle" \/ dsStarts > 0

\* direct_start up to the call of _ensure_direct_room_with_retry
DsStart(r, user, name) ==
    /\ dsReq[r].pc = "idle"
    /\ DsInTurn(r)
    /\ dsStarts < MaxStarts
    /\ dsStarts' = dsStarts + 1
    /\ LET target == user_by_name(name)
           req == [IdleRequest EXCEPT !.initiator = user.id, !.target = target,
                                      !.seq = dsStarts + 1]
       IN IF ~user.is_authenticated \/ name = "" \/ target = 0
          THEN \* 401, 400 and 404: answered at once, nothing is read or written
               UNCHANGED <<dsReq, dsResp>>
          ELSE IF target = user.id
          THEN /\ dsResp' = dsResp \cup {Response(req, 400)}
               /\ UNCHANGED dsReq
          ELSE /\ dsReq' = [dsReq EXCEPT ![r] =
                    [req EXCEPT !.pc = "get",
                                !.pair_key = direct_pair_key(user.id, target),
                                !.slug = direct_room_slug(
                                             direct_pair_key(user.id, target))]]
               /\ UNCHANGED dsResp
    /\ UNCHANGED <<rooms, roleRows, dsRest>>

\* get_or_create: SELECT by direct_pair_key, at the start of an attempt
DsGet(r) ==
    /\ dsReq[r].pc = "get"
    /\ LET found == room_by_pair_key(rooms, dsReq[r].pair_key) IN
       IF found # NoRoom
       THEN /\ rooms' = (rooms \ {found}) \cup {repair_direct(found, dsReq[r].slug)}
            /\ dsReq' = [dsReq EXCEPT ![r].pc = "roles",
                                      ![r].room = repair_direct(found, dsReq[r].slug),
                                      ![r].created = FALSE]
       ELSE /\ dsReq' = [dsReq EXCEPT ![r].pc = "insert"]
            /\ UNCHANGED rooms
    /\ UNCHANGED <<roleRows, dsResp, dsStarts, dsRest>>

\* get_or_create: INSERT of the new room; on IntegrityError its second SELECT,
\* which inside the open transaction may or may not see the other request's row
DsInsert(r, seen) ==
    /\ dsReq[r].pc = "insert"
    /\ LET row == [Room(dsReq[r].slug, DIRECT, dsReq[r].pair_key)
                   EXCEPT !.created_by = dsReq[r].initiator]
           winner == room_by_pair_key(rooms, dsReq[r].pair_key)
       IN IF ~insert_conflicts(rooms, row)
          THEN /\ ~seen
               /\ rooms' = rooms \cup {row}
               /\ dsReq' = [dsReq EXCEPT ![r].pc = "roles", ![r].room = row,
                                         ![r].created = TRUE,
                                         ![r].inserts = @ + 1]
          ELSE IF seen /\ winner # NoRoom
          THEN /\ rooms' = (rooms \ {winner}) \cup {repair_direct(winner, dsReq[r].slug)}
               /\ dsReq' = [dsReq EXCEPT ![r].pc = "roles",
                                         ![r].room = repair_direct(winner, dsReq[r].slug),
                                         ![r].created = FALSE,
                                         ![r].collided = TRUE,
                                         ![r].inserts = @ + 1]
          ELSE /\ ~seen
               /\ dsReq' = [dsReq EXCEPT ![r].pc = "recover",
                                         ![r].error = "IntegrityError",
                                         ![r].collided = TRUE,
                                         ![r].inserts = @ + 1]
               /\ UNCHANGED rooms
    /\ UNCHANGED <<roleRows, dsResp, dsStarts, dsRest>>

\* the INSERT finds the database locked by another request (SQLite)
DsLocked(r) ==
    /\ dsReq[r].pc = "insert"
    /\ \E q \in DsRequests \ {r} : dsReq[q].pc \in {"insert", "roles"}
    /\ dsReq' = [dsReq EXCEPT ![r].pc = "recover", ![r].error = "locked",
                              ![r].inserts = @ + 1]
    /\ UNCHANGED <<rooms, roleRows, dsResp, dsStarts, dsRest>>

\* _ensure_direct_room_with_retry: the except branches
DsRecover(r) ==
    /\ dsReq[r].pc = "recover"
    /\ LET room == room_by_pair_key(rooms, dsReq[r].pair_key)
           last == dsReq[r].attempt = CHAT_DIRECT_START_RETRIES - 1
       IN IF room # NoRoom
          THEN /\ dsReq' = [dsReq EXCEPT ![r].pc = "roles", ![r].room = room,
                                         ![r].created = FALSE, ![r].error = ""]
               /\ UNCHANGED dsResp
          ELSE IF last
          THEN /\ dsResp' = dsResp \cup
                     {Response(dsReq[r],
                               IF dsReq[r].error = "locked" THEN 503 ELSE 500)}
               /\ dsReq' = [dsReq EXCEPT ![r] = IdleRequest]
          ELSE /\ dsReq' = [dsReq EXCEPT ![r].pc = "get", ![r].attempt = @ + 1,
                                         ![r].error = ""]
               /\ UNCHANGED dsResp
    /\ UNCHANGED <<rooms, roleRows, dsStarts, dsRest>>

\* direct_start: _ensure_direct_roles in its transaction, then the response
DsRoles(r) ==
    /\ dsReq[r].pc = "roles"
    /\ roleRows' = ensure_direct_roles(roleRows, dsReq[r].room.slug, dsReq[r].initiator,
                                       dsReq[r].target, dsReq[r].created)
    /\ dsResp' = dsResp \cup {Response(dsReq[r], 200)}
    /\ dsReq' = [dsReq EXCEPT ![r] = IdleRequest]
    /\ UNCHANGED <<rooms, dsStarts, dsRest>>

\* room_details for a valid slug no room has: the user gets a PRIVATE room of that
\* name and its OWNER role
DsRoomDetails(user, room_slug) ==
    /\ user.is_authenticated
    /\ room_slug # PUBLIC_ROOM_SLUG
    /\ is_valid_room_slug(room_slug)
    /\ room_by_slug(rooms, room_slug) = NoRoom
    /\ rooms' = rooms \cup {Room(room_slug, PRIVATE, None)}
    /\ roleRows' = ensure_role(roleRows, room_slug, user.id, OWNER)
    /\ UNCHANGED <<dsVars, dsRest>>

DsNext ==
    \/ \E r \in DsRequests, id \in {2, 3}, name \in DsTargetNames :
          DsStart(r, AuthUser(id), name)
    \/ \E r \in DsRequests : DsStart(r, AnonymousUser, "member")
    \/ \E r \in DsRequests : DsGet(r)
    \/ \E r \in DsRequests, seen \in BOOLEAN : DsInsert(r, seen)
    \/ \E r \in DsRequests : DsLocked(r)
    \/ \E r \in DsRequests : DsRecover(r)
    \/ \E r \in DsRequests : DsRoles(r)
    \/ DsRoomDetails(AuthUser(1), DirectSlug3)

-----------------------------------------------------------------------------
(* Room details (api.py room_details) next to the chat connect: both resolve *)
(* a room name, only room_details creates a room.  The database answers     *)
(* every statement; one request is one step.                                *)

RdUserIds == {1, 2, 3}

RdUsers == {AnonymousUser} \cup {AuthUser(i) : i \in RdUserIds}

NoResponse ==
    [status |-> 0, user |-> AnonymousUser, slug |-> "", found |-> FALSE,
     created |-> FALSE, kind |-> "", createdBy |-> 0]

\* the JSON answer of room_details, with the request it answers and whether
\* _resolve_room found a room
RoomResponse(user, room_slug, found, status, created, room) ==
    [status |-> status, user |-> user, slug |-> room_slug, found |-> found,
     created |-> created,
     kind |-> IF status = 200 THEN room.kind ELSE "",
     createdBy |-> IF status = 200 THEN room.created_by ELSE 0]

\* _ensure_room_owner_role
ensure_room_owner_role(rows, room) ==
    IF room.created_by = 0 THEN rows
    ELSE ensure_role(rows, room.slug, room.created_by, OWNER)

RdInit == rdResp = NoResponse

\* mutant: room_details creates the room for whoever asks
RoomDetails_CreatesForAnyone(user, room_slug) ==
    LET found == room_by_slug(rooms, room_slug)
        made == [Room(room_slug, PRIVATE, None) EXCEPT !.created_by = user.id]
    IN
    IF room_slug # PUBLIC_ROOM_SLUG /\ is_valid_room_slug(room_slug)
          /\ found = NoRoom
    THEN /\ rooms' = rooms \cup {made}
         /\ roleRows' = ensure_role(roleRows, room_slug, user.id, OWNER)
         /\ rdResp' = RoomResponse(user, room_slug, FALSE, 200, TRUE, made)
         /\ UNCHANGED <<bkVars, tmVars, dsVars, acVars, urVars, ibVars, prVars, clock, conn, rlCache,
                        messages, mailbox, outbox, nframes, roleEdited, rlHist,
                        rlOverlap, rlWindows>>
    ELSE /\ rdResp' = RoomResponse(user, room_slug, found # NoRoom, 404, FALSE, NoRoom)
         /\ UNCHANGED <<rooms, roleRows, bkVars, tmVars, dsVars, acVars, urVars, ibVars, prVars, clock,
                        conn, rlCache, messages, mailbox, outbox, nframes, roleEdited,
                        rlHist, rlOverlap, rlWindows>>

\* room_details
RoomDetails(user, room_slug) ==
    LET found == room_by_slug(rooms, room_slug)
        made == [Room(room_slug, PRIVATE, None) EXCEPT !.created_by = user.id]
        repaired == ensure_room_owner_role(roleRows, found)
    IN
    /\ IF room_slug = PUBLIC_ROOM_SLUG
       THEN \* _resolve_room answers with _public_room()
            /\ rooms' = load_room_table(rooms, room_slug)
            /\ roleRows' = roleRows
            /\ rdResp' = RoomResponse(user, room_slug, TRUE, 200, FALSE,
                                      load_room(rooms, room_slug))
       ELSE IF ~is_valid_room_slug(room_slug)
       THEN /\ rdResp' = RoomResponse(user, room_slug, FALSE, 400, FALSE, NoRoom)
            /\ UNCHANGED <<rooms, roleRows>>
       ELSE IF found = NoRoom
       THEN IF ~user.is_authenticated
            THEN /\ rdResp' = RoomResponse(user, room_slug, FALSE, 404, FALSE, NoRoom)
                 /\ UNCHANGED <<rooms, roleRows>>
            ELSE /\ rooms' = rooms \cup {made}
                 /\ roleRows' = ensure_role(roleRows, room_slug, user.id, OWNER)
                 /\ rdResp' = RoomResponse(user, room_slug, FALSE, 200, TRUE, made)
       ELSE IF found.kind \in {PRIVATE, DIRECT} /\ ~can_read(roleRows, found, user)
       THEN \* the owner role of a legacy room is restored before the refusal
            /\ roleRows' = repaired
            /\ rooms' = rooms
            /\ rdResp' = IF can_read(repaired, found, user)
                         THEN RoomResponse(user, room_slug, TRUE, 200, FALSE, found)
                         ELSE RoomResponse(user, room_slug, TRUE, 404, FALSE, NoRoom)
       ELSE /\ rdResp' = RoomResponse(user, room_slug, TRUE, 200, FALSE, found)
            /\ UNCHANGED <<rooms, roleRows>>
    /\ UNCHANGED <<bkVars, tmVars, dsVars, acVars, urVars, ibVars, prVars, clock, conn, rlCache,
                   messages, mailbox, outbox, nframes, roleEdited, rlHist,
                   rlOverlap, rlWindows>>

\* SpecRooms: clients ask for room details and open chat connections, under
\* any room name and as any user
RdNext ==
    \/ \E user \in RdUsers, slug \in PathSlugs : RoomDetails(user, slug)
    \/ \E c \in Conns, user \in RdUsers, slug \in PathSlugs : Connect(c, user, slug)
    \/ \E c \in Conns : Disconnect(c)

-----------------------------------------------------------------------------
(* Background timers: the idle watchdogs and heartbeats of the three        *)
(* consumers are asyncio tasks that sleep and wake on time.monotonic().     *)
(* A task whose sleep has ended runs before time moves on.                  *)

TmInit == mono = 0

\* some task of some connection has slept long enough
TimerDue ==
    \/ \E c \in Conns :
          /\ conn[c].status = "joined"
          /\ conn[c].idle_task = "sleeping" /\ conn[c].idle_wake <= mono
    \/ \E i \in InboxConns :
          /\ ibConn[i].status \in {"joined", "idle_closed"}
          /\ \/ ibConn[i].heartbeat_task = "sleeping" /\ ibConn[i].heartbeat_wake <= mono
             \/ /\ ibConn[i].status = "joined"
                /\ ibConn[i].idle_task = "sleeping" /\ ibConn[i].idle_wake <= mono
    \/ \E p \in PresenceConns :
          /\ prConn[p].status \in {"open", "idle_closed"}
          /\ \/ prConn[p].heartbeat_task = "sleeping" /\ prConn[p].heartbeat_wake <= mono
             \/ /\ prConn[p].status = "open"
                /\ prConn[p].idle_task = "sleeping" /\ prConn[p].idle_wake <= mono

\* a second passes on both clocks; cache entries whose timeout has run out are dropped
TmTick ==
    /\ mono < MaxMono
    /\ ~TimerDue
    /\ mono' = mono + 1
    /\ clock' = clock + 1
    /\ rlCache' = [u \in ChatUserIds |->
                      IF rlCache[u].present /\ rlCache[u].expires <= clock + 1
                      THEN NoData ELSE rlCache[u]]
    /\ UNCHANGED <<bkVars, rdVars, dsVars, acVars, urVars, ibVars, prVars, rooms, roleRows, conn,
                   messages, mailbox, outbox, nframes, roleEdited, rlHist, rlOverlap,
                   rlWindows>>

\* SpecTimers: one connection to each consumer, opened at time 0, with its
\* timers running: user 1's chat connection in the direct room with user 2,
\* user 2's inbox connection, and the presence connection of alice; a handler
\* that has begun ends within the second.  The presence consumer shares no
\* cache key, group or timer with the two others, so a run has either the
\* presence connection or the chat and inbox connections.
ChatUnused ==
    /\ \A c \in Conns : conn[c].status = "new"
    /\ \A i \in InboxConns : ibConn[i].status = "new"

PresenceUnused == \A p \in PresenceConns : prConn[p].status = "new"

TmHandlersIdle ==
    /\ \A c \in Conns : conn[c].pc = "idle"
    /\ \A i \in InboxConns : ibConn[i].pc = "idle"

\* client frames of the chat and inbox connections so far
TmFrames == nframes + ibFrames

TmNext ==
    \/ TmHandlersIdle /\ TmTick
    \/ mono = 0 /\ PresenceUnused /\ Connect("c1", AuthUser(1), DirectSlug)
    \/ mono = 0 /\ PresenceUnused /\ Connect("c1", AuthUser(3), DirectSlug)
    \/ Disconnect("c1")
    \/ \E frame \in RateFrames :
          TmFrames < MaxIdleFrames /\ Receive("c1", frame, MaxIdleFrames)
    \/ RateGet("c1")
    \/ RateSet("c1")
    \/ SaveMessage("c1")
    \/ Publish("c1")
    \/ InboxTargets("c1")
    \/ ChatMessage("c1")
    \/ ChatIdleWatchdog("c1")
    \/ mono = 0 /\ PresenceUnused /\ IbConnect("i1", AuthUser(2))
    \/ TmFrames < MaxIdleFrames /\ IbPing("i1")
    \/ IbEvent("i1")
    \/ IbHeartbeat("i1")
    \/ IbIdleWatchdog("i1")
    \/ IbDisconnect("i1")
    \/ IbClosed("i1")
    \/ \E scope \in PresenceScopes :
          mono = 0 /\ ChatUnused /\ scope.username = "alice" /\ PrConnect("p1", scope)
    \/ PrPing("p1")
    \/ PrUpdate("p1")
    \/ PrHeartbeat("p1")
    \/ PrIdleWatchdog("p1")
    \/ \E close_code \in {1000, PRESENCE_CLOSE_IDLE_CODE} : PrDisconnect("p1", close_code)

\* SpecIdle: user 1 (c1) and user 2 (c2) in the private room, with the idle
\* watchdogs of their connections running; the connections are opened at time 0
\* and a receive handler that has begun ends within the second
IdNext ==
    \/ (\A c \in Conns : conn[c].pc = "idle") /\ TmTick
    \/ \E c \in Conns :
          mono = 0 /\ Connect(c, AuthUser(IF c = "c1" THEN 1 ELSE 2), PrivateSlug)
    \/ \E c \in Conns : Disconnect(c)
    \/ \E c \in Conns, frame \in RateFrames : Receive(c, frame, MaxIdleFrames)
    \/ \E c \in Conns : RateGet(c)
    \/ \E c \in Conns : RateSet(c)
    \/ \E c \in Conns : SaveMessage(c)
    \/ \E c \in Conns : Publish(c)
    \/ \E c \in Conns : ChatMessage(c)
    \/ \E c \in Conns : ChatIdleWatchdog(c)


AcIdle ==
    /\ acRoom = Room("", "", None)
    /\ acUser = AnonymousUser
    /\ acRows = {}
    /\ acOp = "none"
    /\ acResult = FALSE

-----------------------------------------------------------------------------
(* Database rate limiter: DbRateLimiter.is_limited keeps one row of the     *)
(* table SecurityRateLimitBucket per scope key (scope_key is unique).  A    *)
(* call runs in one transaction; SELECT .. FOR UPDATE takes the row lock of *)
(* the row it finds and waits while another transaction holds it; a row     *)
(* that does not exist cannot be locked, so two calls may both go on to     *)
(* create it, and the unique index refuses the second INSERT.                *)

BucketProcs == {"b1", "b2"}

\* rl:auth:<action>:<ip> as _rate_limited builds it, and the empty key
BucketKeys == {"", "rl:auth:login:10.0.0.1"}

NoBucket == [id |-> 0, scope_key |-> "", count |-> 0, reset_at |-> 0]

BkIdleProc ==
    [pc |-> "idle", scope_key |-> "", now |-> 0, bucket |-> NoBucket,
     retries |-> 0, result |-> FALSE, how |-> "none"]

BkInit ==
    /\ bkRows = {}
    /\ bkProc = [p \in BucketProcs |-> BkIdleProc]
    /\ bkTime = 0
    /\ bkCalls = 0
    /\ bkPassed = [k \in BucketKeys |-> 0]

notBucket == <<acVars, chVars, urVars, ibVars, prVars, dsVars, rdVars, tmVars>>

\* RateLimitPolicy.normalized_limit, normalized_window
normalized_limit(limit) == IF limit < 1 THEN 1 ELSE limit

normalized_window(window_seconds) == IF window_seconds < 1 THEN 1 ELSE window_seconds

\* the rows of a scope key, and the one .first() returns
BucketsOf(rows, scope_key) == {b \in rows : b.scope_key = scope_key}

FirstBucket(rows, scope_key) ==
    CHOOSE b \in BucketsOf(rows, scope_key) :
        \A o \in BucketsOf(rows, scope_key) : b.id <= o.id

\* the rows some open transaction holds the lock of
LockedIds == {bkProc[q].bucket.id : q \in {r \in BucketProcs : bkProc[r].pc = "locked"}}

\* is_limited is entered: the empty key is refused at once, otherwise now is read
BkCall(p, scope_key) ==
    /\ bkProc[p].pc = "idle"
    /\ bkCalls < MaxBucketCalls
    /\ bkCalls' = bkCalls + 1
    /\ bkProc' = [bkProc EXCEPT ![p] =
          IF scope_key = ""
              THEN [BkIdleProc EXCEPT !.pc = "done", !.result = TRUE, !.how = "empty"]
              ELSE [BkIdleProc EXCEPT !.pc = "begun", !.scope_key = scope_key,
                                      !.now = bkTime]]
    /\ UNCHANGED <<bkRows, bkTime, bkPassed, notBucket>>

\* a plain filter(..).first() in place of select_for_update(): no row lock is taken
BkSelect_NoLock(p) ==
    /\ bkProc[p].pc = "begun"
    /\ IF BucketsOf(bkRows, bkProc[p].scope_key) = {}
          THEN bkProc' = [bkProc EXCEPT ![p].pc = "absent"]
          ELSE bkProc' = [bkProc EXCEPT ![p].pc = "locked",
                              ![p].bucket = FirstBucket(bkRows, bkProc[p].scope_key)]
    /\ UNCHANGED <<bkRows, bkTime, bkCalls, bkPassed, notBucket>>

\* select_for_update().filter(scope_key=..).first(): waits for the row lock
BkSelect(p) ==
    /\ bkProc[p].pc = "begun"
    /\ IF BucketsOf(bkRows, bkProc[p].scope_key) = {}
          THEN bkProc' = [bkProc EXCEPT ![p].pc = "absent"]
          ELSE LET bucket == FirstBucket(bkRows, bkProc[p].scope_key) IN
               /\ bucket.id \notin LockedIds
               /\ bkProc' = [bkProc EXCEPT ![p].pc = "locked", ![p].bucket = bucket]
    /\ UNCHANGED <<bkRows, bkTime, bkCalls, bkPassed, notBucket>>

\* bucket is None: create(count=1); a row of the key that was stored meanwhile
\* raises IntegrityError and the call starts again
BkCreate(p) ==
    /\ bkProc[p].pc = "absent"
    /\ IF BucketsOf(bkRows, bkProc[p].scope_key) # {}
          THEN /\ bkProc' = [bkProc EXCEPT ![p].pc = "begun", ![p].now = bkTime,
                                           ![p].retries = @ + 1]
               /\ UNCHANGED <<bkRows, bkPassed>>
          ELSE /\ bkRows' = bkRows \cup
                    {[id |-> Cardinality(bkRows) + 1, scope_key |-> bkProc[p].scope_key,
                      count |-> 1,
                      reset_at |-> bkProc[p].now + normalized_window(AUTH_RATE_WINDOW)]}
               /\ bkPassed' = [bkPassed EXCEPT ![bkProc[p].scope_key] = 1]
               /\ bkProc' = [bkProc EXCEPT ![p].pc = "done", ![p].result = FALSE,
                                           ![p].how = "created"]
    /\ UNCHANGED <<bkTime, bkCalls, notBucket>>

\* the row as save() writes it
SavedRows(rows, bucket) == {IF b.id = bucket.id THEN bucket ELSE b : b \in rows}

\* the bucket was found: reset it, refuse, or count; the commit frees the lock
BkUpdate(p) ==
    LET bucket == bkProc[p].bucket
        key == bkProc[p].scope_key
    IN
    /\ bkProc[p].pc = "locked"
    /\ IF bucket.reset_at <= bkProc[p].now
          THEN /\ bkRows' = SavedRows(bkRows,
                      [bucket EXCEPT !.count = 1,
                           !.reset_at = bkProc[p].now + normalized_window(AUTH_RATE_WINDOW)])
               /\ bkPassed' = [bkPassed EXCEPT ![key] = 1]
               /\ bkProc' = [bkProc EXCEPT ![p].pc = "done", ![p].result = FALSE,
                                           ![p].how = "reset"]
          ELSE IF bucket.count >= normalized_limit(AUTH_RATE_LIMIT)
          THEN /\ bkProc' = [bkProc EXCEPT ![p].pc = "done", ![p].result = TRUE,
                                           ![p].how = "limited"]
               /\ UNCHANGED <<bkRows, bkPassed>>
          ELSE /\ bkRows' = SavedRows(bkRows, [bucket EXCEPT !.count = @ + 1])
               /\ bkPassed' = [bkPassed EXCEPT ![key] = @ + 1]
               /\ bkProc' = [bkProc EXCEPT ![p].pc = "done", ![p].result = FALSE,
                                           ![p].how = "counted"]
    /\ UNCHANGED <<bkTime, bkCalls, notBucket>>

\* except Exception: the store failed, the transaction is rolled back
BkError(p) ==
    /\ bkProc[p].pc \in {"begun", "absent", "locked"}
    /\ bkProc' = [bkProc EXCEPT ![p].pc = "done", ![p].result = TRUE, ![p].how = "error"]
    /\ UNCHANGED <<bkRows, bkTime, bkCalls, bkPassed, notBucket>>

\* the caller has the answer
BkReturn(p) ==
    /\ bkProc[p].pc = "done"
    /\ bkProc' = [bkProc EXCEPT ![p] = BkIdleProc]
    /\ UNCHANGED <<bkRows, bkTime, bkCalls, bkPassed, notBucket>>

\* a second passes
BkTick ==
    /\ bkTime < MaxBucketTime
    /\ bkTime' = bkTime + 1
    /\ UNCHANGED <<bkRows, bkProc, bkCalls, bkPassed, notBucket>>

BkStep(p) == BkSelect(p) \/ BkCreate(p) \/ BkUpdate(p) \/ BkReturn(p)

BkNext ==
    \/ \E p \in BucketProcs, scope_key \in BucketKeys : BkCall(p, scope_key)
    \/ \E p \in BucketProcs : BkSelect(p)
    \/ \E p \in BucketProcs : BkCreate(p)
    \/ \E p \in BucketProcs : BkUpdate(p)
    \/ \E p \in BucketProcs : BkError(p)
    \/ \E p \in BucketProcs : BkReturn(p)
    \/ BkTick

-----------------------------------------------------------------------------
(* Specifications: one per component, the other components held still      *)

InitAccess == AcInit /\ ChInit /\ UrInit /\ IbInit /\ PrInit /\ DsInit /\ RdInit /\ TmInit /\ BkInit

SpecAccess == InitAccess /\ [][AcNext]_vars

InitChat == ChInit /\ AcIdle /\ UrInit /\ IbInit /\ PrInit /\ DsInit /\ RdInit /\ TmInit /\ BkInit

SpecChat == InitChat /\ [][ChNext]_vars

SpecRate == InitChat /\ [][RlNext]_vars

InitUnread == UrInit /\ AcIdle /\ ChInit /\ IbInit /\ PrInit /\ DsInit /\ RdInit /\ TmInit /\ BkInit

SpecUnread == InitUnread /\ [][UrNext]_vars

InitActive == IbInit /\ AcIdle /\ ChInit /\ UrInit /\ PrInit /\ DsInit /\ RdInit /\ TmInit /\ BkInit

SpecActive == InitActive /\ [][AvNext]_vars

SpecInbox == InitActive /\ [][InNext]_vars

InitPresence == PrInit /\ AcIdle /\ ChInit /\ UrInit /\ IbInit /\ DsInit /\ RdInit /\ TmInit /\ BkInit

SpecPresence == InitPresence /\ [][PrNext]_vars

InitVisible == PvInit /\ AcIdle /\ ChInit /\ UrInit /\ IbInit /\ DsInit /\ RdInit /\ TmInit /\ BkInit

SpecVisible == InitVisible /\ [][PvNext]_vars

InitDirect == DsInit /\ AcIdle /\ ChInit /\ UrInit /\ IbInit /\ PrInit /\ RdInit /\ TmInit /\ BkInit

SpecDirect == InitDirect /\ [][DsNext]_vars

InitRooms == RdInit /\ ChInit /\ AcIdle /\ UrInit /\ IbInit /\ PrInit /\ DsInit /\ TmInit /\ BkInit

SpecRooms == InitRooms /\ [][RdNext]_vars

InitIdle == TmInit /\ ChInit /\ AcIdle /\ UrInit /\ IbInit /\ PrInit /\ DsInit /\ RdInit /\ BkInit

SpecIdle == InitIdle /\ [][IdNext]_vars

SpecTimers == InitIdle /\ [][TmNext]_vars

\* SpecPing: presence connections that receive frames of every kind while both
\* clocks run; no timer of a connection is due in that time
PgTick ==
    /\ clock < MaxPingTime
    /\ ~TimerDue
    /\ clock' = clock + 1
    /\ mono' = mono + 1
    /\ UNCHANGED <<bkVars, rdVars, dsVars, prVars, acVars, urVars, ibVars, rooms, roleRows, conn,
                   rlCache, messages, mailbox, outbox, nframes, roleEdited, rlHist,
                   rlOverlap, rlWindows>>

PgNext ==
    \/ PgTick
    \/ \E scope \in PresenceScopes : PrConnect("p1", scope)
    \/ \E scope \in PresenceScopes : scope.username = "alice" /\ PrConnect("p2", scope)
    \/ \E p \in PresenceConns, frame \in PresenceFrames :
          PrReceive(p, frame, MaxPingFrames)
    \/ PrDisconnect("p2", 1000)

SpecPing == InitPresence /\ [][PgNext]_vars

\* The cache helpers of the presence consumer read the shared map with
\* cache.get and store the changed copy with cache.set; helpers of connections
\* served by different processes run side by side between the two.

\* connect up to the call of _add_user or _add_guest
RcConnect(p, scope) ==
    /\ prConn[p].status = "new"
    /\ PrInOrder(p)
    /\ prConn' = [prConn EXCEPT ![p] =
          [NoPresenceConn EXCEPT
              !.status = "open", !.is_guest = scope.is_guest,
              !.username = scope.username, !.guest_ip = scope.guest_ip,
              !.group_name = IF scope.is_guest THEN PRESENCE_GROUP_GUEST
                             ELSE PRESENCE_GROUP_AUTH,
              !.last_client_activity = mono, !.heard = mono,
              !.heartbeat_task = "sleeping",
              !.heartbeat_wake = mono + presence_heartbeat_interval,
              !.idle_task = IF PRESENCE_IDLE_TIMEOUT > 0 THEN "sleeping" ELSE "none",
              !.idle_wake = IF PRESENCE_IDLE_TIMEOUT > 0
                            THEN mono + presence_idle_interval ELSE 0,
              !.pc = IF scope.is_guest /\ scope.guest_ip = NoIp THEN "broadcast"
                     ELSE "read",
              !.op = "add"]]
    /\ UNCHANGED <<prUsers, prGuests, prMail, prOut, prPings, prLast, prLeft>>
    /\ UNCHANGED <<bkVars, tmVars, rdVars, dsVars, acVars, urVars, ibVars, rooms, roleRows, conn, rlCache,
                   messages, mailbox, outbox, nframes, roleEdited, rlHist,
                   rlOverlap, rlWindows, clock>>

\* disconnect(close_code) up to the call of _remove_user or _remove_guest
RcDisconnect(p, close_code) ==
    /\ prConn[p].status = "open"
    /\ prConn[p].pc = "idle"
    /\ prConn' = [prConn EXCEPT
          ![p].status = "closed",
          ![p].heartbeat_task = cancelled(@),
          ![p].idle_task = cancelled(@),
          ![p].pc = IF prConn[p].is_guest /\ prConn[p].guest_ip = NoIp
                    THEN "broadcast" ELSE "read",
          ![p].op = "remove",
          ![p].graceful = close_code \in {1000, 1001}]
    /\ UNCHANGED <<prUsers, prGuests, prMail, prOut, prPings, prLast, prLeft>>
    /\ UNCHANGED <<bkVars, tmVars, rdVars, dsVars, acVars, urVars, ibVars, rooms, roleRows, conn, rlCache,
                   messages, mailbox, outbox, nframes, roleEdited, rlHist,
                   rlOverlap, rlWindows, clock>>

\* data = cache.get(key, {}) of the helper
RcRead(p) ==
    /\ prConn[p].pc = "read"
    /\ prConn' = [prConn EXCEPT
          ![p].pc = "write",
          ![p].local = IF prConn[p].is_guest THEN prGuests ELSE prUsers]
    /\ UNCHANGED <<prUsers, prGuests, prMail, prOut, prPings, prLast, prLeft>>
    /\ UNCHANGED <<bkVars, tmVars, rdVars, dsVars, acVars, urVars, ibVars, rooms, roleRows, conn, rlCache,
                   messages, mailbox, outbox, nframes, roleEdited, rlHist,
                   rlOverlap, rlWindows, clock>>

\* the rest of the helper: the copy is changed and stored with cache.set;
\* _remove_user stores nothing when the name is not in the copy
RcWrite(p) ==
    LET me == prConn[p]
        data == me.local
        stores == me.is_guest \/ me.op = "add" \/ data[me.username].present
    IN
    /\ me.pc = "write"
    /\ IF me.is_guest
       THEN /\ prGuests' = IF me.op = "add" THEN add_guest(data, me.guest_ip, clock)
                           ELSE remove_guest(data, me.guest_ip, me.graceful, clock)
            /\ UNCHANGED prUsers
       ELSE /\ prUsers' = IF ~stores THEN prUsers
                          ELSE IF me.op = "add" THEN add_user(data, me.username, clock)
                          ELSE remove_user(data, me.username, me.graceful, clock)
            /\ UNCHANGED prGuests
    /\ prConn' = [prConn EXCEPT
          ![p].pc = "broadcast",
          ![p].local = <<>>,
          ![p].raced = @ \/ (stores /\ data # (IF me.is_guest THEN prGuests ELSE prUsers))]
    /\ UNCHANGED <<prMail, prOut, prPings, prLast, prLeft>>
    /\ UNCHANGED <<bkVars, tmVars, rdVars, dsVars, acVars, urVars, ibVars, rooms, roleRows, conn, rlCache,
                   messages, mailbox, outbox, nframes, roleEdited, rlHist,
                   rlOverlap, rlWindows, clock>>

\* _broadcast at the end of connect and disconnect
RcBroadcast(p) ==
    /\ prConn[p].pc = "broadcast"
    /\ LET conns == [prConn EXCEPT ![p].pc = "idle", ![p].op = "none"]
       IN /\ prConn' = conns
          /\ Broadcast(prUsers, prGuests, conns)
    /\ UNCHANGED <<prOut, prPings, prLeft>>
    /\ UNCHANGED <<bkVars, tmVars, rdVars, dsVars, acVars, urVars, ibVars, rooms, roleRows, conn, rlCache,
                   messages, mailbox, outbox, nframes, roleEdited, rlHist,
                   rlOverlap, rlWindows, clock>>

\* SpecRace: connects and disconnects of the presence connections side by side,
\* within one second
RcNext ==
    \/ \E p \in PresenceConns, scope \in PresenceScopes : RcConnect(p, scope)
    \/ \E p \in PresenceConns, close_code \in CloseCodes : RcDisconnect(p, close_code)
    \/ \E p \in PresenceConns : RcRead(p)
    \/ \E p \in PresenceConns : RcWrite(p)
    \/ \E p \in PresenceConns : RcBroadcast(p)

SpecRace == InitPresence /\ [][RcNext]_vars

\* SpecTouch: alice's connection p1 and a guest's connection p2 are open; the
\* entry of each is what the connections of the same identity have left at
\* time 0: none (evicted), a count of 1 or 2, or a count of 0 in its grace window
\* (the identity's other connection was dropped with an abnormal close code)
PtEntries ==
    {NoEntry, presence_entry(Num(1), 0, 0), presence_entry(Num(2), 0, 0),
     presence_entry(Num(0), 0, PRESENCE_GRACE)}

PtConn(is_guest, username, guest_ip) ==
    [NoPresenceConn EXCEPT !.status = "open", !.is_guest = is_guest,
                           !.username = username, !.guest_ip = guest_ip,
                           !.group_name = IF is_guest THEN PRESENCE_GROUP_GUEST
                                          ELSE PRESENCE_GROUP_AUTH]

PtInit ==
    /\ prConn = [p \in PresenceConns |->
                    IF p = "p1" THEN PtConn(FALSE, "alice", NoIp)
                    ELSE PtConn(TRUE, "", CHOOSE ip \in PresenceIps : TRUE)]
    /\ \E e \in PtEntries :
          prUsers = [n \in PresenceNames |-> IF n = "alice" THEN e ELSE NoEntry]
    /\ \E e \in PtEntries : prGuests = [ip \in PresenceIps |-> e]
    /\ prMail = [p \in PresenceConns |-> <<>>]
    /\ prOut = [p \in PresenceConns |-> {}]
    /\ prPings = 0
    /\ prLast = NoSnapshot
    /\ prLeft = [n \in PresenceNames |-> NoLeft]

PtNext ==
    \/ PrTick
    \/ \E p \in PresenceConns : PrReceive(p, "ping", MaxTouchPings)
    \/ PvGetOnline
    \/ PvGetGuestCount

InitTouch ==
    PtInit /\ AcIdle /\ ChInit /\ UrInit /\ IbInit /\ DsInit /\ RdInit /\ TmInit /\ BkInit

SpecTouch == InitTouch /\ [][PtNext]_vars

\* SpecOrder: user 1 (c1) and user 2 (c2) write to the private room side by side
OrNext ==
    \/ \E c \in Conns : Connect(c, AuthUser(IF c = "c1" THEN 1 ELSE 2), PrivateSlug)
    \/ \E c \in Conns, frame \in RateFrames : Receive(c, frame, MaxOrderSends)
    \/ \E c \in Conns : RateGet(c)
    \/ \E c \in Conns : RateSet(c)
    \/ \E c \in Conns : SaveMessage(c)
    \/ \E c \in Conns : Publish(c)
    \/ \E c \in Conns : ChatMessage(c)

SpecOrder == InitChat /\ [][OrNext]_vars

InitBucket ==
    BkInit /\ AcIdle /\ ChInit /\ UrInit /\ IbInit /\ PrInit /\ DsInit /\ RdInit /\ TmInit

\* a call that can take a step takes it in the end
SpecBucket == InitBucket /\ [][BkNext]_vars /\ \A p \in BucketProcs : WF_vars(BkStep(p))

\* chat connects that pass and that fail the checks of connect, next to a member
\* who publishes; inbox connects of an anonymous and of a signed-in client
JoinSlugs == {DirectSlug, "missing123", "public/bad"}

JnNext ==
    \/ \E user \in RdUsers, slug \in JoinSlugs :
          Connect("c1", user, slug)
    \/ Connect("c2", AuthUser(2), DirectSlug)
    \/ \E c \in Conns : Disconnect(c)
    \/ \E c \in Conns, frame \in RateFrames : Receive(c, frame, MaxIdleFrames)
    \/ \E c \in Conns : RateGet(c)
    \/ \E c \in Conns : RateSet(c)
    \/ \E c \in Conns : SaveMessage(c)
    \/ \E c \in Conns : Publish(c)
    \/ \E c \in Conns : InboxTargets(c)
    \/ \E c \in Conns : ChatMessage(c)
    \/ \E user \in {AnonymousUser, AuthUser(1)} : IbConnect("i1", user)
    \/ IbEvent("i1")
    \/ IbDisconnect("i1")
    \/ IbClosed("i1")

SpecJoin == InitIdle /\ [][JnNext]_vars

\* user 1 writes to the direct room of users 1 and 2 while user 2 (i1) and an
\* outsider, user 3 (i2), send set_active_room and mark_read frames
MkNext ==
    \/ Connect("c1", AuthUser(1), DirectSlug)
    \/ \E frame \in RateFrames : Receive("c1", frame, MaxFrames)
    \/ RateGet("c1")
    \/ RateSet("c1")
    \/ SaveMessage("c1")
    \/ Publish("c1")
    \/ InboxTargets("c1")
    \/ \E i \in InboxConns : IbConnect(i, AuthUser(IF i = "i1" THEN 2 ELSE 3))
    \/ \E i \in InboxConns, raw \in InboxRawSlugs :
          ibFrames < MaxMarkFrames /\ IbSetActive(i, raw)
    \/ \E i \in InboxConns, raw \in InboxRawSlugs :
          ibFrames < MaxMarkFrames /\ IbMarkRead(i, raw)
    \/ \E i \in InboxConns : IbClearDelete(i)
    \/ \E i \in InboxConns : IbEvent(i)

SpecMark == InitActive /\ [][MkNext]_vars


-----------------------------------------------------------------------------
(* Access claims (C1..C4), under SpecAccess                                *)

DecChars == <<"0", "1", "2", "3", "4", "5", "6", "7", "8", "9">>

\* the decimal numeral of n >= 1
RECURSIVE Dec(_)
Dec(n) ==
    IF n < 10 THEN <<DecChars[n + 1]>>
    ELSE Append(Dec(n \div 10), DecChars[(n % 10) + 1])

\* key is numeral ":" numeral: one separator, digits on both sides of it
TwoIntegers(key) ==
    /\ key # None
    /\ \E i \in 2..(Len(key) - 1) :
          /\ key[i] = ":"
          /\ \A j \in (1..Len(key)) \ {i} : key[j] \in Digits

\* key is numeral ":" numeral and one of the two numerals is id's
IdInPairKey(key, id) ==
    /\ TwoIntegers(key)
    /\ \E i \in 2..(Len(key) - 1) :
          /\ key[i] = ":"
          /\ \/ SubSeq(key, 1, i - 1) = Dec(id)
             \/ SubSeq(key, i + 1, Len(key)) = Dec(id)

\* the user holds a row of the room whose role is in S
HoldsRoleIn(S) ==
    \E r \in acRows : r.room = acRoom.slug /\ r.user = acUser.id /\ r.role \in S

\* C1: in a DIRECT room can_read is true iff the user is authenticated, its id
\* is one of the two ids of the pair key and it holds a READ role; a user
\* outside the pair key is denied read and write whatever row it holds.
C1_DirectReadIffPairAndRole ==
    /\ (acOp = "can_read" /\ acRoom.kind = DIRECT) =>
          (acResult <=> /\ acUser.is_authenticated
                        /\ IdInPairKey(acRoom.direct_pair_key, acUser.id)
                        /\ HoldsRoleIn({OWNER, ADMIN, MEMBER, VIEWER}))
    /\ (/\ acOp \in {"can_read", "can_write"}
        /\ acRoom.kind = DIRECT
        /\ ~IdInPairKey(acRoom.direct_pair_key, acUser.id)) => ~acResult

\* a third user holding an ADMIN row of a DIRECT room of users 1 and 2 was
\* refused read access
C1_Witness ==
    /\ acOp = "can_read"
    /\ acRoom.kind = DIRECT
    /\ acRoom.direct_pair_key = <<"1", ":", "2">>
    /\ acUser = AuthUser(3)
    /\ HoldsRoleIn({ADMIN})
    /\ acResult = FALSE

\* C2: can_read of a PUBLIC room is true for every user, anonymous included,
\* whatever the role rows.
C2_PublicReadableByAll ==
    (acOp = "can_read" /\ acRoom.kind = PUBLIC) => acResult = TRUE

\* an anonymous user was granted read access to a PUBLIC room
C2_Witness ==
    /\ acOp = "can_read"
    /\ acRoom.kind = PUBLIC
    /\ acUser = AnonymousUser
    /\ acResult = TRUE

\* C3: can_write is true exactly when the room is PUBLIC and the user is
\* authenticated, or the room is PRIVATE and the authenticated user holds
\* OWNER, ADMIN or MEMBER, or the room is DIRECT, the user is in the pair key
\* and holds OWNER, ADMIN or MEMBER.
C3_WriteExactly ==
    acOp = "can_write" =>
       (acResult <=>
          \/ acRoom.kind = PUBLIC /\ acUser.is_authenticated
          \/ /\ acRoom.kind = PRIVATE
             /\ acUser.is_authenticated
             /\ HoldsRoleIn({OWNER, ADMIN, MEMBER})
          \/ /\ acRoom.kind = DIRECT
             /\ acUser.is_authenticated
             /\ IdInPairKey(acRoom.direct_pair_key, acUser.id)
             /\ HoldsRoleIn({OWNER, ADMIN, MEMBER}))

\* a VIEWER of a PRIVATE room was refused write access
C3_Witness ==
    /\ acOp = "can_write"
    /\ acRoom.kind = PRIVATE
    /\ acUser.is_authenticated
    /\ HoldsRoleIn({VIEWER})
    /\ acResult = FALSE

\* C4: in a DIRECT room whose pair key is missing or is not two integers
\* separated by ':', can_read and can_write are false for every user, the
\* holder of an OWNER row included.
C4_MalformedKeyDenies ==
    (/\ acOp \in {"can_read", "can_write"}
     /\ acRoom.kind = DIRECT
     /\ ~TwoIntegers(acRoom.direct_pair_key)) => acResult = FALSE

\* user 1, OWNER of a DIRECT room whose key is "1:x", was refused
C4_Witness ==
    /\ acOp \in {"can_read", "can_write"}
    /\ acRoom.kind = DIRECT
    /\ acRoom.direct_pair_key = <<"1", ":", "x">>
    /\ acUser = AuthUser(1)
    /\ HoldsRoleIn({OWNER})
    /\ acResult = FALSE

-----------------------------------------------------------------------------
(* Chat session claims (C5, C6), under SpecChat                            *)

\* connection c was sent one more frame in this step
SentTo(c) == \E e \in {ErrorEvent("message_too_long"), ErrorEvent("forbidden"),
                       ErrorEvent("rate_limited")} :
                outbox'[c] = Append(outbox[c], e)

\* C5 (as claimed): every frame an unauthenticated user sends on a joined chat
\* connection is dropped silently: nothing is persisted, nothing is published
\* and no event, not even an error, is sent back, whatever the frame holds.
C5_AnonymousFramesDropped ==
    [][\A c \in Conns, f \in Frames :
          (Receive(c, f, MaxFrames) /\ ~conn[c].user.is_authenticated) =>
             /\ messages' = messages
             /\ mailbox' = mailbox
             /\ ~SentTo(c)]_vars

\* the frame is a JSON object whose message is a string that is not blank and,
\* blanks at both ends apart, no longer than the limit
ValidMessage(f) ==
    /\ f.kind = "string"
    /\ \E i \in 1..Len(f.body), j \in 1..Len(f.body) :
          /\ i <= j
          /\ f.body[i] # " " /\ f.body[j] # " "
          /\ \A k \in 1..Len(f.body) : (k < i \/ k > j) => f.body[k] = " "
          /\ j - i + 1 <= CHAT_MESSAGE_MAX_LENGTH

\* C6: when an authenticated user on a joined connection sends a valid message
\* while can_write is false for the roles as they are then, the client gets
\* the error forbidden, the connection stays joined, and nothing is persisted
\* or published and the rate-limit counter is untouched.
C6_ForbiddenWhenNotWriter ==
    [][\A c \in Conns, f \in Frames :
          (/\ Receive(c, f, MaxFrames)
           /\ conn[c].user.is_authenticated
           /\ ValidMessage(f)
           /\ ~can_write(roleRows, conn[c].room, conn[c].user)) =>
             /\ outbox'[c] = Append(outbox[c], ErrorEvent("forbidden"))
             /\ conn'[c].status = "joined"
             /\ conn'[c].pc = "idle"
             /\ messages' = messages
             /\ mailbox' = mailbox
             /\ rlCache' = rlCache
             /\ rlHist' = rlHist]_vars

\* user 2, joined to the private room and holding VIEWER after a role edit,
\* was answered forbidden and nothing was stored
C6_Witness ==
    \E c \in Conns :
       /\ conn[c].status = "joined"
       /\ conn[c].user = AuthUser(2)
       /\ conn[c].room.slug = PrivateSlug
       /\ roleEdited
       /\ [room |-> PrivateSlug, user |-> 2, role |-> VIEWER] \in roleRows
       /\ Len(outbox[c]) > 0
       /\ outbox[c][Len(outbox[c])] = ErrorEvent("forbidden")
       /\ messages = <<>>

-----------------------------------------------------------------------------
(* Rate limiter claims (C7..C9), under SpecRate                            *)

\* A fixed-window counter run over a history of checks: it opens a window at
\* the first check and at the first check at or after the window's end, admits
\* the first CHAT_MESSAGE_RATE_LIMIT checks of a window and refuses the rest.
\* good: every check of the history was decided as the counter decides.
RECURSIVE FixedWindow(_)
FixedWindow(h) ==
    IF h = <<>> THEN [has |-> FALSE, start |-> 0, cnt |-> 0, good |-> TRUE]
    ELSE LET p == FixedWindow(SubSeq(h, 1, Len(h) - 1))
             e == h[Len(h)]
         IN  IF ~p.has \/ e.now >= p.start + CHAT_MESSAGE_RATE_WINDOW
             THEN [has |-> TRUE, start |-> e.now, cnt |-> 1, good |-> p.good /\ e.ok]
             ELSE IF p.cnt < CHAT_MESSAGE_RATE_LIMIT
             THEN [p EXCEPT !.cnt = @ + 1, !.good = @ /\ e.ok]
             ELSE [p EXCEPT !.good = @ /\ ~e.ok]

\* a rate check of user u has read the counter and not yet written it
InFlight(u) == \E c \in Conns : conn[c].pc = "rate_set" /\ conn[c].user.id = u

RateLimitedEvents(c) ==
    Cardinality({i \in 1..Len(outbox[c]) : outbox[c][i] = ErrorEvent("rate_limited")})

RefusedChecks(u, c) ==
    Cardinality({i \in 1..Len(rlHist[u]) : rlHist[u][i].conn = c /\ ~rlHist[u][i].ok})

AcceptedInWindow(u, reset) ==
    Cardinality({i \in 1..Len(rlHist[u]) :
                    /\ rlHist[u][i].ok
                    /\ rlHist[u][i].now >= reset - CHAT_MESSAGE_RATE_WINDOW
                    /\ rlHist[u][i].now < reset})

C9_ElapsedWindowAccepts ==
    /\ [](\A u \in ChatUserIds :
             rlCache[u].present => rlCache[u].reset <= clock + CHAT_MESSAGE_RATE_WINDOW)
    /\ [][\A c \in Conns :
             (/\ RateGet(c)
              /\ \/ ~cache_get(rlCache, conn[c].user.id).present
                 \/ cache_get(rlCache, conn[c].user.id).reset <= clock) =>
                /\ conn'[c].pc = "rate_set"
                /\ conn'[c].rl.count = 1
                /\ conn'[c].rl.reset = clock + CHAT_MESSAGE_RATE_WINDOW
                /\ outbox' = outbox]_vars

\* a user was refused and, later, accepted again
C9_Witness ==
    \E u \in ChatUserIds : \E i, j \in 1..Len(rlHist[u]) :
       /\ i < j
       /\ ~rlHist[u][i].ok
       /\ rlHist[u][j].ok
       /\ rlHist[u][j].now >= rlHist[u][i].now

-----------------------------------------------------------------------------
(* Unread state claims (C10), under SpecUnread                             *)

\* the places of room r among the items of counts
Entries(counts, r) == {i \in 1..Len(counts) : counts[i].k = r}

\* the count of room r in counts, 0 when it has no key
CountOf(counts, r) ==
    IF Entries(counts, r) = {} THEN 0
    ELSE counts[CHOOSE i \in Entries(counts, r) : TRUE].v

\* counts has exactly the rooms with marks to show, each once and with the
\* number of its marks; a room without marks has no key
CountsAre(counts, marks) ==
    /\ \A i \in 1..Len(counts) : counts[i].k \in Rooms
    /\ \A r \in Rooms :
          IF marks[r] = 0 THEN Entries(counts, r) = {}
          ELSE /\ Cardinality(Entries(counts, r)) = 1
               /\ CountOf(counts, r) = marks[r]

\* slugs lists exactly the rooms with marks to show, each once
SlugsAre(slugs, marks) ==
    \A r \in Rooms :
       Cardinality({i \in 1..Len(slugs) : slugs[i] = r}) = IF marks[r] > 0 THEN 1 ELSE 0

\* C10: sequential use (no call of the user overlaps another, and the entry
\* does not run out inside a call): after N calls mark_unread(user, room) since
\* the room's state was empty, the stored and the returned state have
\* counts[room] = N and list the room once in slugs; after mark_read(user,
\* room) the room has no key in counts and slugs (it is not kept with count 0)
\* and the counts of the other rooms are as they were.
C10_SequentialUnreadCounts ==
    /\ [](\A u \in UnreadUserIds :
             (~urRaced[u] /\ \A p \in Procs : ~(urProc[p].pc = "set" /\ urProc[p].user = u))
                => CountsAre(urStore[u].value, urMarks[u]))
    /\ [][\A p \in Procs :
             ((MarkUnreadSet(p) \/ MarkReadSet(p)) /\ ~urRaced[urProc[p].user]) =>
                LET u   == urProc[p].user
                    ret == urProc'[p].ret
                IN  /\ CountsAre(ret.counts, urMarks'[u])
                    /\ SlugsAre(ret.slugs, urMarks'[u])
                    /\ ret.counts = urStore'[u].value
                    /\ urProc[p].op = "mark_unread" =>
                          CountOf(ret.counts, urProc[p].slug) = urMarks[u][urProc[p].slug] + 1
                    /\ urProc[p].op = "mark_read" =>
                          /\ Entries(ret.counts, urProc[p].slug) = {}
                          /\ \A r \in Rooms \ {urProc[p].slug} :
                                CountOf(urStore'[u].value, r) = CountOf(urStore[u].value, r)]_vars

\* after two mark_unread calls for room b, mark_read of room a (given with
\* blanks around its name or not) returned counts with b at 2 and no key a
C10_Witness ==
    /\ ~urRaced[1]
    /\ urProc["p1"].pc = "idle"
    /\ urProc["p1"].op = "mark_read"
    /\ urProc["p1"].user = 1
    /\ urProc["p1"].slug = RoomA
    /\ urProc["p1"].ret = [dialogs |-> 1, slugs |-> <<RoomB>>,
                           counts |-> <<[k |-> RoomB, v |-> 2]>>]
    /\ urStore[1] = DictValue(<<[k |-> RoomB, v |-> 2]>>)
    /\ urMarks[1] = [r \in Rooms |-> IF r = RoomB THEN 2 ELSE 0]

\* C11: under any interleaving of the calls, a user's stored unread value is
\* absent or a map that is not empty and whose every count is above 0, and
\* every state a call has returned has dialogs = number of keys of counts =
\* length of slugs.
C11_StoredMapNeverEmpty ==
    /\ \A u \in UnreadUserIds :
          urStore[u].present =>
             /\ urStore[u].kind = "dict"
             /\ urStore[u].value # <<>>
             /\ \A i \in 1..Len(urStore[u].value) : urStore[u].value[i].v > 0
    /\ \A p \in Procs :
          (urProc[p].pc = "idle" /\ urProc[p].op # "none") =>
             LET ret == urProc[p].ret
             IN  /\ ret.dialogs = Cardinality({ret.counts[i].k : i \in 1..Len(ret.counts)})
                 /\ ret.dialogs = Len(ret.counts)
                 /\ ret.dialogs = Len(ret.slugs)

\* calls of user 1 raced, and a mark_read that took the last room away left
\* no entry and returned the empty state
C11_Witness ==
    /\ urRaced[1]
    /\ ~urStore[1].present
    /\ \E p \in Procs :
          /\ urProc[p].pc = "idle"
          /\ urProc[p].op = "mark_read"
          /\ urProc[p].user = 1
          /\ urProc[p].slug # <<>>
          /\ urProc[p].ret = [dialogs |-> 0, slugs |-> <<>>, counts |-> <<>>]

-----------------------------------------------------------------------------
(* Active-room marker claims (C14, C15), under SpecActive                  *)

\* user u has a marker that has not run out
LiveMarker(u) == ibActive[u].present /\ ibActive[u].expires > clock

\* connection i takes a step of a touch or of a clear (a ping, a
\* set_active_room with roomSlug null, a disconnect, or the write of one)
TouchOrClearBegins(i) == IbPing(i) \/ IbSetActive(i, NullSlug) \/ IbDisconnect(i)

TouchOrClearStep(i) == TouchOrClearBegins(i) \/ IbTouchSet(i) \/ IbClearDelete(i)

\* C14: a touch or a clear with a connection identifier (ping, set_active_room
\* with roomSlug null, inbox disconnect) that finds the user's marker absent or
\* owned by another connection leaves the marker as it is (room, owner,
\* timeout) and goes on to no write.
C14_TouchClearOnlyOwnMarker ==
    [][\A i \in InboxConns :
          (/\ TouchOrClearBegins(i)
           /\ \/ ~LiveMarker(ibConn[i].user.id)
              \/ ibActive[ibConn[i].user.id].connId # i) =>
             /\ ibActive' = ibActive
             /\ ibConn'[i].pc \notin {"touch_set", "clear_delete"}]_vars

\* connection i1 of user 1 has disconnected and the marker of connection i2
\* of the same user is still there
C14_Witness ==
    /\ ibConn["i1"].status = "closed"
    /\ ibConn["i1"].close_code = 1000
    /\ ibConn["i1"].user = AuthUser(1)
    /\ ibConn["i2"].status = "joined"
    /\ ibConn["i2"].user = AuthUser(1)
    /\ LiveMarker(1)
    /\ ibActive[1].connId = "i2"

\* C15 (as claimed): under any interleaving of two inbox connections of one
\* user, while the user's marker is owned by connection c2 and has not run
\* out, no step of a ping, a clear or a disconnect of another connection c1
\* deletes it or overwrites it.
C15_StaleNeverClobbers ==
    [][\A c1 \in InboxConns, c2 \in InboxConns :
          (/\ c1 # c2
           /\ ibConn[c1].user.is_authenticated
           /\ LiveMarker(ibConn[c1].user.id)
           /\ ibActive[ibConn[c1].user.id].connId = c2
           /\ TouchOrClearStep(c1)) =>
             ibActive'[ibConn[c1].user.id] = ibActive[ibConn[c1].user.id]]_vars

-----------------------------------------------------------------------------
(* Inbox update claims (C12, C13), under SpecInbox                         *)

\* the users the pair key of the room names
PairOf(room) == {u \in InboxUserIds : IdInPairKey(room.direct_pair_key, u)}

\* user u's marker has not run out and names the room
HasActive(u, slug) == LiveMarker(u) /\ ibActive[u].roomSlug = slug

\* the places in counts of rooms other than the one named by key
OtherRooms(counts, key) == {k \in 1..Len(counts) : counts[k].k # key}

ItemEvents(box) == {k \in 1..Len(box) : box[k].type = "direct_inbox_item"}

\* C12: when A's accepted message in a DIRECT room is handed to the inboxes
\* while B's marker names the room, the update queued for B's inbox
\* connections reports isUnread false and counts without the room (dialogs 0
\* when B has no other unread room); and an inbox connection of a user outside
\* the room is never sent an update.
C12_ActiveRoomStaysRead ==
    /\ [](\A i \in InboxConns :
             (/\ ibConn[i].user.is_authenticated
              /\ ibConn[i].user.id \notin PairOf(room_by_slug(rooms, DirectSlug)))
                => ItemEvents(ibMail[i]) = {} /\ ItemEvents(ibOut[i]) = {})
    /\ [][\A c \in Conns :
             (InboxTargets(c) /\ conn[c].room.kind = DIRECT) =>
                LET slug == conn[c].room.slug
                    key  == <<slug>>
                    pair == PairOf(conn[c].room)
                IN  /\ \A b \in pair \ {conn[c].user.id} :
                          HasActive(b, slug) =>
                             /\ Entries(urStore'[b].value, key) = {}
                             /\ \A i \in InboxConns :
                                   (ibConn[i].status = "joined" /\ ibConn[i].user.id = b) =>
                                      /\ Len(ibMail'[i]) = Len(ibMail[i]) + 1
                                      /\ LET e == ibMail'[i][Len(ibMail'[i])]
                                         IN  /\ e.type = "direct_inbox_item"
                                             /\ e.item.slug = slug
                                             /\ e.unread.isUnread = FALSE
                                             /\ Entries(e.unread.counts, key) = {}
                                             /\ e.unread.dialogs = Len(urStore'[b].value)
                                             /\ OtherRooms(urStore[b].value, key) = {}
                                                   => e.unread.dialogs = 0
                    /\ \A j \in InboxConns :
                          (ibConn[j].user.is_authenticated /\ ibConn[j].user.id \notin pair)
                             => ibMail'[j] = ibMail[j]]_vars

\* user 2 holds the room active on inbox connection i1 and was sent, for a
\* message of user 1, an update with isUnread false and no dialogs; user 3 on
\* inbox connection i2 was sent nothing but its state at connect
C12_Witness ==
    /\ ibConn["i1"].status = "joined" /\ ibConn["i1"].user = AuthUser(2)
    /\ ibConn["i2"].status = "joined" /\ ibConn["i2"].user = AuthUser(3)
    /\ HasActive(2, DirectSlug)
    /\ ibActive[2].connId = "i1"
    /\ Len(messages) = 1 /\ messages[1].user = 1 /\ messages[1].room = DirectSlug
    /\ Len(ibOut["i1"]) = 2
    /\ ibOut["i1"][2].type = "direct_inbox_item"
    /\ ibOut["i1"][2].unread.isUnread = FALSE
    /\ ibOut["i1"][2].unread.dialogs = 0
    /\ Len(ibOut["i2"]) = 1 /\ ibMail["i2"] = <<>>
    /\ ~urStore[2].present

-----------------------------------------------------------------------------
(* Presence claims (C16..C18), under SpecPresence and SpecVisible          *)

\* the step drops the only connection of the user with an abnormal close code
DroppedNow(u) == prLeft'[u] # prLeft[u] /\ prLeft'[u].at >= 0

GraceEntry(at) == presence_entry(Num(0), at, at + PRESENCE_GRACE)

\* the last snapshot shows the user exactly while the grace window is open
ShownUntilGraceEnds(u) ==
    (u \in prLast.online) <=> (prLast.at < prLeft[u].at + PRESENCE_GRACE)

CountOrZero(info) == IF info.count.numeric THEN info.count.n ELSE 0

VisibleRule(info, now) ==
    \/ CountOrZero(info) > 0 /\ now - info.last_seen <= PRESENCE_TTL
    \/ /\ CountOrZero(info) <= 0
       /\ info.grace_until # 0
       /\ now < info.grace_until
       /\ now - info.last_seen <= PRESENCE_TTL

\* C17: a snapshot read includes a stored entry if and only if
\* (count > 0 and now - last_seen <= TTL) or (count <= 0, grace_until is set,
\* now < grace_until and now - last_seen <= TTL), a count that is not a number
\* standing for 0; the same for the online list and for the guest count
C17_VisibilityRule ==
    [][/\ PvGetOnline =>
            prLast'.online = {n \in PresenceNames :
                                 prUsers[n].present /\ VisibleRule(prUsers[n], clock)}
       /\ PvGetGuestCount =>
            prLast'.guests = Cardinality({ip \in PresenceIps :
                                 prGuests[ip].present /\ VisibleRule(prGuests[ip], clock)})
      ]_vars

\* a snapshot listed an entry whose count is not a number, inside its grace window,
\* and counted no guest because the guest entry's window had run out
C17_Witness ==
    /\ prLast.at > 0
    /\ prUsers["alice"].present
    /\ prUsers["alice"].count = NotANumber
    /\ "alice" \in prLast.online
    /\ \A ip \in PresenceIps : ~prGuests[ip].present
    /\ prLast.guests = 0

GuestConns == {p \in PresenceConns : prConn[p].status # "new" /\ prConn[p].is_guest}

\* C18: nothing queued for or sent to a connection registered as guest carries the
\* online-user list; a guest's frames hold the guest count and nothing else
C18_GuestsNeverSeeOnlineList ==
    \A p \in GuestConns :
        /\ \A k \in 1..Len(prMail[p]) : "online" \notin DOMAIN prMail[p][k]
        /\ \A frame \in prOut[p] : DOMAIN frame = {"guests"}

\* a guest was sent a frame by a broadcast taken while alice was in the online list
C18_Witness ==
    /\ "alice" \in prLast.online
    /\ \E p \in GuestConns :
          /\ prConn[p].status = "open"
          /\ prMail[p] = <<>>
          /\ [guests |-> prLast.guests] \in prOut[p]
    /\ \E q \in PresenceConns :
          /\ ~prConn[q].is_guest
          /\ \E frame \in prOut[q] : "online" \in DOMAIN frame /\ "alice" \in frame.online

-----------------------------------------------------------------------------
(* Direct-start claims (C19, C20), under SpecDirect                         *)

\* the canonical key of two users: the lower id, a colon, the higher id
CanonicalKey(a, b) ==
    IF a <= b THEN <<ToString(a), ":", ToString(b)>> ELSE <<ToString(b), ":", ToString(a)>>

Served == {x \in dsResp : x.status = 200}

\* C19: every direct-start that is answered for two distinct users A and B returns
\* the slug derived from the key low:high, whoever of the two asks and however often;
\* a user naming themself gets status 400 and no room is made for a key a:a
C19_SameSlugBothWays ==
    /\ \A x \in Served :
          /\ x.initiator # x.target
          /\ x.slug = direct_room_slug(CanonicalKey(x.initiator, x.target))
    /\ \A x, y \in Served :
          {x.initiator, x.target} = {y.initiator, y.target} => x.slug = y.slug
    /\ \A x \in dsResp : x.initiator = x.target => x.status = 400
    /\ \A room \in rooms, u \in DsUserIds : room.direct_pair_key # CanonicalKey(u, u)

\* user 2 started the chat with user 3 twice and user 3 started it with user 2
C19_Witness ==
    /\ \E x, y \in Served :
          /\ x.created /\ ~y.created
          /\ x.initiator = 2 /\ x.target = 3
          /\ y.initiator = 2 /\ y.target = 3
    /\ \E z \in Served : z.initiator = 3 /\ z.target = 2 /\ z.slug = DirectSlug3

\* C20: at no time do two rooms hold one direct_pair_key and at most one request of
\* a pair creates the room; every request answered with 200 returns the room of its
\* pair; a request that lost the race for the unique key returns the other's row,
\* not one of its own; no request tries the INSERT more often than
\* CHAT_DIRECT_START_RETRIES
C20_OneRoomPerPair ==
    /\ \A r1, r2 \in rooms :
          r1.direct_pair_key # None /\ r1.direct_pair_key = r2.direct_pair_key
              => r1 = r2
    /\ \A x, y \in Served :
          /\ x.created /\ y.created
          /\ {x.initiator, x.target} = {y.initiator, y.target}
          => x.seq = y.seq
    /\ \A x \in Served :
          \E room \in rooms :
              /\ room.direct_pair_key = CanonicalKey(x.initiator, x.target)
              /\ room.slug = x.slug
    /\ \A x \in Served : x.collided => ~x.created
    /\ \A r \in DsRequests :
          /\ dsReq[r].attempt < CHAT_DIRECT_START_RETRIES
          /\ dsReq[r].inserts <= CHAT_DIRECT_START_RETRIES

\* two requests for users 2 and 3 ran side by side: one made the room, the other hit
\* the unique constraint and returned the same room
C20_Witness ==
    \E x, y \in Served :
        /\ x.created /\ ~x.collided
        /\ y.collided /\ ~y.created
        /\ {x.initiator, x.target} = {2, 3}
        /\ {y.initiator, y.target} = {2, 3}
        /\ x.slug = y.slug

-----------------------------------------------------------------------------
(* Room resolution claims (C21..C23), under SpecRooms                       *)

\* the chat connect of a user under a well-formed name no room has
ConnectToMissing(c, user, slug) ==
    /\ Connect(c, user, slug)
    /\ slug # PUBLIC_ROOM_SLUG
    /\ is_valid_room_slug(slug)
    /\ room_by_slug(rooms, slug) = NoRoom

\* the tables hold a PRIVATE room of that name, made by this user, who owns it
OwnedPrivateRoom(table, rows, slug, id) ==
    /\ \E r \in table : r.slug = slug /\ r.kind = PRIVATE /\ r.created_by = id
    /\ \A r \in table : r.slug = slug => r.kind = PRIVATE /\ r.created_by = id
    /\ [room |-> slug, user |-> id, role |-> OWNER] \in rows

AskedForMissing ==
    /\ rdResp.status # 0
    /\ rdResp.slug # PUBLIC_ROOM_SLUG
    /\ is_valid_room_slug(rdResp.slug)
    /\ ~rdResp.found

StoredRoom(slug) ==
    IF slug = PUBLIC_ROOM_SLUG THEN [kind |-> PUBLIC, slug |-> slug]
    ELSE IF \E r \in rooms : r.slug = slug
    THEN [kind |-> (CHOOSE r \in rooms : r.slug = slug).kind, slug |-> slug]
    ELSE [kind |-> "", slug |-> ""]

\* the user holds a reading role in the room and, in a DIRECT room, is one of its pair
MayRead(slug, user) ==
    \/ StoredRoom(slug).kind = PUBLIC
    \/ /\ user.is_authenticated
       /\ \E row \in roleRows :
             row.room = slug /\ row.user = user.id /\ row.role \in READ_ROLES
       /\ StoredRoom(slug).kind = DIRECT =>
             \E r \in rooms : r.slug = slug /\ IdInPairKey(r.direct_pair_key, user.id)

BadName(slug) == slug # PUBLIC_ROOM_SLUG /\ slug \notin ValidSlugs

\* C22: a chat connect ends in exactly one of four ways, decided in this order: a
\* name that fails the slug pattern (and is not the public name) is closed with
\* 4404; a well-formed name no room has is closed with 4404 and no room is made; a
\* room the user cannot read is closed with 4403; every other connect is accepted
C22_ConnectOutcomes ==
    [][\A c \in Conns, user \in RdUsers, slug \in PathSlugs :
          Connect(c, user, slug) =>
             /\ conn'[c].status \in {"closed", "joined"}
             /\ conn'[c].status = "joined" <=> conn'[c].close_code = 0
             /\ IF BadName(slug)
                THEN conn'[c].close_code = 4404 /\ rooms' = rooms
                ELSE IF StoredRoom(slug).slug = ""
                THEN conn'[c].close_code = 4404 /\ rooms' = rooms
                ELSE IF ~MayRead(slug, user)
                THEN conn'[c].close_code = 4403
                ELSE /\ conn'[c].status = "joined"
                     /\ conn'[c].room.slug = slug
                     /\ conn'[c].user = user
             /\ roleRows' = roleRows]_vars

\* one connection was refused as not found and the other as forbidden, and room
\* details had made a room before
C22_Witness ==
    /\ conn["c1"].status = "closed" /\ conn["c1"].close_code = 4404
    /\ conn["c2"].status = "closed" /\ conn["c2"].close_code = 4403
    /\ rdResp.status = 404

\* C23: the connect of a user who may not read an existing PRIVATE or DIRECT room is
\* closed with the code of a well-formed name no room has, 4404
C23_ExistenceDoesNotLeak ==
    [][\A c \in Conns, user \in RdUsers, slug \in PathSlugs :
          /\ Connect(c, user, slug)
          /\ StoredRoom(slug).kind \in {PRIVATE, DIRECT}
          /\ ~MayRead(slug, user)
          => conn'[c].close_code = 4404]_vars

-----------------------------------------------------------------------------
(* Timer claims (C25), under SpecIdle                                       *)

\* C25: at every poll of the chat idle watchdog the connection is closed, with
\* the idle code, exactly when its client has sent no frame for longer than
\* CHAT_WS_IDLE_TIMEOUT, whatever room events were delivered to it meanwhile
C25_IdleClosedAtNextPoll ==
    [][\A c \in Conns :
          ChatIdleWatchdog(c) =>
             LET closed == /\ conn'[c].status = "idle_closed"
                           /\ conn'[c].close_code = CHAT_CLOSE_IDLE_CODE
             IN  closed <=> mono - conn[c].heard > CHAT_WS_IDLE_TIMEOUT]_vars

-----------------------------------------------------------------------------
(* Timer claims (C26, C27), under SpecTimers                                *)

\* a pass of the inbox watchdog closes the connection, with the inbox idle code
InboxIdleClose(i) ==
    /\ IbIdleWatchdog(i)
    /\ ibConn'[i].status = "idle_closed"
    /\ ibConn'[i].close_code = DIRECT_INBOX_CLOSE_IDLE_CODE

\* a pass of the presence watchdog closes the connection
PresenceIdleClose(p) ==
    /\ PrIdleWatchdog(p)
    /\ prConn'[p].status = "idle_closed"

\* C26: a pass of the inbox or presence idle watchdog closes the connection, with
\* that consumer's idle code, exactly when the client has sent no frame for longer
\* than the idle timeout, whatever pings and forwarded events the server sent
\* meanwhile; an open connection is never silent for longer than the timeout plus
\* one poll interval
C26_OnlyClientFramesResetIdle ==
    /\ [][/\ \A i \in InboxConns :
               IbIdleWatchdog(i) =>
                  (InboxIdleClose(i)
                      <=> mono - ibConn[i].heard > DIRECT_INBOX_IDLE_TIMEOUT)
          /\ \A p \in PresenceConns :
               PrIdleWatchdog(p) =>
                  (PresenceIdleClose(p)
                      <=> mono - prConn[p].heard > PRESENCE_IDLE_TIMEOUT)]_vars
    /\ [](\A i \in InboxConns :
             ibConn[i].status = "joined" =>
                mono - ibConn[i].heard
                    <= DIRECT_INBOX_IDLE_TIMEOUT + inbox_idle_interval)
    /\ [](\A p \in PresenceConns :
             prConn[p].status = "open" =>
                mono - prConn[p].heard <= PRESENCE_IDLE_TIMEOUT + presence_idle_interval)

\* the inbox client stayed silent, was sent a ping and a forwarded event, and was
\* then closed as idle
C26_Witness ==
    /\ ibConn["i1"].status = "idle_closed"
    /\ ibConn["i1"].close_code = DIRECT_INBOX_CLOSE_IDLE_CODE
    /\ ibConn["i1"].heard = 0
    /\ mono > DIRECT_INBOX_IDLE_TIMEOUT
    /\ \E k \in 1..Len(ibOut["i1"]) : ibOut["i1"][k].type = "ping"
    /\ \E k \in 1..Len(ibOut["i1"]) : ibOut["i1"][k].type = "direct_inbox_item"


finished(task) == task \in {"none", "cancelled", "done"}

\* nothing of chat connection c changes in this step
ChatQuiet(c) ==
    conn'[c] = conn[c] /\ mailbox'[c] = mailbox[c] /\ outbox'[c] = outbox[c]

InboxQuiet(i) ==
    ibConn'[i] = ibConn[i] /\ ibMail'[i] = ibMail[i] /\ ibOut'[i] = ibOut[i]

PresenceQuiet(p) ==
    prConn'[p] = prConn[p] /\ prMail'[p] = prMail[p] /\ prOut'[p] = prOut[p]

\* C27: once the disconnect of a chat, inbox or presence connection has completed,
\* its idle watchdog and heartbeat are cancelled or finished, it is in no fanout
\* group, and nothing happens on it any more (no close, no ping, no event); a chat
\* disconnect of a connection that never joined, or that was disconnected before,
\* changes nothing
C27_DisconnectTeardown ==
    /\ [](\A c \in Conns :
             conn[c].status = "closed" =>
                finished(conn[c].idle_task) /\ conn[c].group = "")
    /\ [](\A i \in InboxConns :
             ibConn[i].status = "closed" =>
                /\ finished(ibConn[i].idle_task) /\ finished(ibConn[i].heartbeat_task)
                /\ \A u \in 0..3 : i \notin InboxMembers(u))
    /\ [](\A p \in PresenceConns :
             prConn[p].status = "closed" =>
                /\ finished(prConn[p].idle_task) /\ finished(prConn[p].heartbeat_task)
                /\ \A name \in {"alice", "bob"} : p \notin OpenFor(prConn, name))
    /\ [][/\ \A c \in Conns :
               conn[c].status = "closed" =>
                  /\ ChatQuiet(c)
                  /\ ~ChatIdleWatchdog(c)
                  /\ Disconnect(c) => UNCHANGED vars
          /\ \A i \in InboxConns :
               ibConn[i].status = "closed" =>
                  InboxQuiet(i) /\ ~IbHeartbeat(i) /\ ~IbIdleWatchdog(i)
          /\ \A p \in PresenceConns :
               prConn[p].status = "closed" =>
                  PresenceQuiet(p) /\ ~PrHeartbeat(p) /\ ~PrIdleWatchdog(p)]_vars

\* the chat connection was torn down while its watchdog slept, and time has
\* passed the moment the watchdog would have woken
C27_Witness ==
    /\ conn["c1"].status = "closed"
    /\ conn["c1"].idle_task = "cancelled"
    /\ conn["c1"].close_code = 1000
    /\ mono > chat_idle_interval

-----------------------------------------------------------------------------
(* Group membership claim (C24), under SpecJoin                             *)

\* connect refused the chat connection
ChatRejected(c) == conn[c].status = "closed" /\ conn[c].close_code \in {4403, 4404}

\* connect refused the inbox connection
InboxRejected(i) == ibConn[i].status = "closed" /\ ibConn[i].close_code = 4401

ChatGroups == [c \in Conns |-> conn[c].group]

InboxGroups == [u \in 0..3 |-> InboxMembers(u)]

\* C24: a chat connection is in a room's group only if its connect found the name
\* well formed, the room stored and the user allowed to read it, and an inbox
\* connection is in a user's group only if it is signed in; a refused connection
\* (4404, 4403, 4401) is in no group, has started no task and is never sent or
\* queued an event, and its disconnect leaves every group as it was
C24_GroupOnlyAfterChecks ==
    /\ [](\A c \in Conns :
             conn[c].group # "" =>
                /\ conn[c].status \in {"joined", "idle_closed"}
                /\ conn[c].group = conn[c].room.slug
                /\ ~BadName(conn[c].room.slug)
                /\ StoredRoom(conn[c].room.slug).slug = conn[c].room.slug
                /\ MayRead(conn[c].room.slug, conn[c].user))
    /\ [](\A c \in Conns :
             ChatRejected(c) =>
                /\ conn[c].group = ""
                /\ conn[c].idle_task = "none"
                /\ mailbox[c] = <<>> /\ outbox[c] = <<>>)
    /\ [](\A i \in InboxConns :
             /\ (\E u \in 0..3 : i \in InboxMembers(u)) => ibConn[i].user.is_authenticated
             /\ InboxRejected(i) =>
                   /\ \A u \in 0..3 : i \notin InboxMembers(u)
                   /\ ibConn[i].idle_task = "none" /\ ibConn[i].heartbeat_task = "none"
                   /\ ibMail[i] = <<>> /\ ibOut[i] = <<>>)
    /\ [][/\ \A c \in Conns :
               ChatRejected(c) /\ Disconnect(c) =>
                  ChatGroups' = ChatGroups /\ InboxGroups' = InboxGroups
          /\ \A i \in InboxConns :
               InboxRejected(i) /\ IbDisconnect(i) =>
                  ChatGroups' = ChatGroups /\ InboxGroups' = InboxGroups]_vars

\* a non-member was refused with 4403 and an anonymous inbox client with 4401; a
\* member then published in the room and the event reached the member's client
C24_Witness ==
    /\ ChatRejected("c1") /\ conn["c1"].close_code = 4403
    /\ InboxRejected("i1")
    /\ conn["c2"].status = "joined"
    /\ outbox["c2"] # <<>>

-----------------------------------------------------------------------------
(* Send pipeline claims (C28, C29), under SpecChat                          *)

\* the chat events queued for or sent to connection c, oldest first
ChatEventsOf(c) ==
    SelectSeq(outbox[c] \o mailbox[c],
              LAMBDA e : e.type \in {"chat_message", "message"})

\* how many items of seq satisfy Test
HowMany(seq, Test(_)) == Cardinality({k \in 1..Len(seq) : Test(seq[k])})

\* the stored message that event e stands for
StoredAs(e) == [room |-> e.room, user |-> e.username, message_content |-> e.message]

\* connection d was accepted into the room and its disconnect has not run
Subscribed(d, slug) ==
    /\ conn[d].status \in {"joined", "idle_closed", "crashed"}
    /\ conn[d].room.slug = slug

\* sends of user u that passed every check of receive
AcceptedSends(u) == HowMany(rlHist[u], LAMBDA h : h.ok)

\* C28: every send that passed the checks is stored once and then published once:
\* the stored messages of a user are the user's accepted sends (less those about to
\* be stored); no connection is queued or sent more copies of a chat event than
\* messages with that content, author and room are stored; the message of a publish
\* step is stored already, and the step queues the event once for every connection
\* in the room's group, the sender's included, and for no other; and only a publish
\* step queues anything
C28_PersistThenPublishOnce ==
    /\ [](\A u \in ChatUserIds :
             HowMany(messages, LAMBDA m : m.user = u)
                + Cardinality({c \in Conns : conn[c].user.id = u /\ conn[c].pc = "save"})
                = AcceptedSends(u))
    /\ [](\A c \in Conns :
             \A k \in 1..Len(ChatEventsOf(c)) :
                LET e == ChatEventsOf(c)[k] IN
                HowMany(ChatEventsOf(c), LAMBDA x : StoredAs(x) = StoredAs(e))
                   <= HowMany(messages, LAMBDA m : m = StoredAs(e)))
    /\ [][\A c \in Conns :
             Publish(c) =>
                LET e == ChatEvent(conn[c].message, conn[c].user.id, conn[c].room.slug) IN
                /\ conn[c].status = "joined"
                /\ \E k \in 1..Len(messages) : messages[k] = StoredAs(e)
                /\ mailbox'[c] = Append(mailbox[c], e)
                /\ \A d \in Conns :
                      mailbox'[d] =
                         IF Subscribed(d, conn[c].room.slug)
                         THEN Append(mailbox[d], e) ELSE mailbox[d]
                /\ conn'[c].pc # "publish"]_vars
    /\ [][\A d \in Conns :
             Len(mailbox'[d]) > Len(mailbox[d]) => \E c \in Conns : Publish(c)]_vars

\* a message of user 1 is stored once and has been sent to the clients of both
\* connections of the room, the sender's among them
C28_Witness ==
    /\ conn["c1"].status = "joined" /\ conn["c2"].status = "joined"
    /\ conn["c1"].room.slug = conn["c2"].room.slug
    /\ conn["c1"].user.id = 1 /\ conn["c2"].user.id = 2
    /\ Len(messages) = 1 /\ messages[1].user = 1
    /\ \A c \in Conns :
          /\ Len(outbox[c]) = 1 /\ outbox[c][1].type = "message"
          /\ StoredAs(outbox[c][1]) = messages[1]


\* the frame is no JSON object that carries a non-blank string as "message"
Malformed(frame) == frame.kind # "string" \/ strip(frame.body) = <<>>

TooLong(frame) ==
    frame.kind = "string" /\ Len(strip(frame.body)) > CHAT_MESSAGE_MAX_LENGTH

\* the step leaves the store, the rate limiter and every queue as they were
NothingSent ==
    UNCHANGED <<messages, rlCache, rlHist, mailbox, rooms, roleRows>>

\* C29: a frame that is no JSON object with a non-blank string message is dropped:
\* nothing is sent, stored, published or counted and the connection stays joined;
\* a message over the maximum length is answered with the one error
\* message_too_long and is dropped in the same way
C29_MalformedFramesIgnored ==
    [][\A c \in Conns, frame \in Frames :
          Receive(c, frame, MaxFrames) =>
             /\ Malformed(frame) =>
                   /\ conn'[c].status = "joined" /\ conn'[c].pc = "idle"
                   /\ outbox' = outbox
                   /\ NothingSent
             /\ TooLong(frame) =>
                   /\ conn'[c].status = "joined" /\ conn'[c].pc = "idle"
                   /\ outbox' = [outbox EXCEPT
                                    ![c] = Append(@, ErrorEvent("message_too_long"))]
                   /\ NothingSent]_vars

\* the same for every frame but a JSON value that is no object
ObjectFramesIgnored ==
    [][\A c \in Conns, frame \in Frames :
          Receive(c, frame, MaxFrames) /\ frame.kind # "non_object" =>
             /\ Malformed(frame) =>
                   /\ conn'[c].status = "joined" /\ conn'[c].pc = "idle"
                   /\ outbox' = outbox
                   /\ NothingSent
             /\ TooLong(frame) =>
                   /\ conn'[c].status = "joined" /\ conn'[c].pc = "idle"
                   /\ outbox' = [outbox EXCEPT
                                    ![c] = Append(@, ErrorEvent("message_too_long"))]
                   /\ NothingSent]_vars

-----------------------------------------------------------------------------
(* Inbox frame claim (C30), under SpecMark                                  *)

\* the room named slug is stored, is a DIRECT room, and user may read it
DirectReadable(slug, user) ==
    /\ ~BadName(slug)
    /\ \E r \in rooms : r.slug = slug /\ r.kind = DIRECT
    /\ MayRead(slug, user)

\* the step sends connection i the one error code and changes neither a marker
\* nor an unread state, and the connection stays open
RefusedWith(i, code) ==
    /\ ibOut' = [ibOut EXCEPT ![i] = Append(@, InboxError(code))]
    /\ ibActive' = ibActive
    /\ urStore' = urStore
    /\ ibConn'[i].status = "joined" /\ ibConn'[i].pc = "idle"

UnreadOf(u) == get_unread_state(urStore[u])

\* C30: set_active_room and mark_read answer a roomSlug that is no string with
\* invalid_payload (a null roomSlug of set_active_room clears instead), and a name
\* that is ill-formed, of no room, of a room that is not DIRECT or of a room the
\* user may not read with forbidden; either answer leaves every marker and unread
\* state as it was and the connection open.  A set_active_room that passes sets the
\* user's marker; a mark_read that passes takes the room, and only the room, out of
\* the user's unread state and sends one direct_mark_read_ack with the new state
C30_InboxFrameChecks ==
    [][\A i \in InboxConns, raw \in InboxRawSlugs :
          ibFrames' # ibFrames =>
          LET user == ibConn[i].user
              u    == user.id
          IN
          /\ IbSetActive(i, raw) =>
                IF raw.kind = "null"
                THEN ibOut' = ibOut /\ urStore' = urStore /\ ibActive' = ibActive
                     /\ ibConn'[i].status = "joined"
                ELSE IF raw.kind # "string" THEN RefusedWith(i, "invalid_payload")
                ELSE IF ~DirectReadable(raw.text, user) THEN RefusedWith(i, "forbidden")
                ELSE /\ ibActive'[u].present /\ ibActive'[u].roomSlug = raw.text
                     /\ ibActive'[u].connId = i
                     /\ ibOut' = ibOut /\ urStore' = urStore
          /\ IbMarkRead(i, raw) =>
                IF raw.kind # "string" THEN RefusedWith(i, "invalid_payload")
                ELSE IF ~DirectReadable(raw.text, user) THEN RefusedWith(i, "forbidden")
                ELSE /\ \A k \in 1..Len(UnreadOf(u)'.slugs) : UnreadOf(u)'.slugs[k] # SlugText(raw.text)
                     /\ \A k \in 1..Len(UnreadOf(u).counts) :
                           UnreadOf(u).counts[k].k # SlugText(raw.text) =>
                              \E j \in 1..Len(UnreadOf(u)'.counts) :
                                 UnreadOf(u)'.counts[j] = UnreadOf(u).counts[k]
                     /\ Len(UnreadOf(u)'.counts) <= Len(UnreadOf(u).counts)
                     /\ \A o \in InboxUserIds \ {u} : urStore'[o] = urStore[o]
                     /\ ibOut' = [ibOut EXCEPT
                                     ![i] = Append(@, MarkReadAck(raw.text, UnreadOf(u)'))]
                     /\ ibActive' = ibActive
                     /\ ibConn'[i].status = "joined"]_vars

\* user 2 was told of an unread message in the direct room, was refused a
\* mark_read of a room of two other users, and then marked the direct room read
C30_Witness ==
    /\ Len(ibOut["i1"]) >= 3
    /\ \E k \in 1..Len(ibOut["i1"]) :
          /\ ibOut["i1"][k].type = "direct_inbox_item"
          /\ ibOut["i1"][k].unread.dialogs = 1
    /\ \E k \in 1..Len(ibOut["i1"]) : ibOut["i1"][k] = InboxError("forbidden")
    /\ ibOut["i1"][Len(ibOut["i1"])] =
          MarkReadAck(DirectSlug, [dialogs |-> 0, slugs |-> <<>>, counts |-> <<>>])
    /\ ~urStore[2].present

-----------------------------------------------------------------------------
(* Connect rate limit claim (C31), under SpecJoin: every connection of the  *)
(* specification comes from one client address and no time passes           *)

\* connect attempts accepted so far
AcceptedConnects ==
    Cardinality({c \in Conns :
                    \/ conn[c].status \in {"joined", "idle_closed", "crashed"}
                    \/ conn[c].status = "closed" /\ conn[c].close_code \notin {4403, 4404, 4429}})
    + Cardinality({i \in InboxConns :
                    \/ ibConn[i].status \in {"joined", "idle_closed", "closing"}
                    \/ ibConn[i].status = "closed" /\ ibConn[i].close_code \notin {4401, 4429}})

\* C31: once WS_CONNECT_RATE_LIMIT connects of one address have been accepted in
\* the window, a further chat or inbox connect of that address is closed with 4429
\* and joins no group
C31_ConnectRateLimited ==
    [][/\ \A c \in Conns, user \in RdUsers, slug \in JoinSlugs :
             Connect(c, user, slug) /\ AcceptedConnects >= WS_CONNECT_RATE_LIMIT =>
                /\ conn'[c].status = "closed" /\ conn'[c].close_code = 4429
                /\ conn'[c].group = ""
       /\ \A i \in InboxConns, user \in {AnonymousUser, AuthUser(1)} :
             IbConnect(i, user) /\ AcceptedConnects >= WS_CONNECT_RATE_LIMIT =>
                /\ ibConn'[i].status = "closed" /\ ibConn'[i].close_code = 4429
                /\ \A u \in 0..3 : i \notin InboxMembers(u)']_vars


-----------------------------------------------------------------------------
(* Database rate limiter claim (C32), under SpecBucket                      *)

\* the stored table is sound: one row per key, no count above the limit
BucketTableSound ==
    /\ \A k \in BucketKeys : Cardinality(BucketsOf(bkRows, k)) <= 1
    /\ \A b \in bkRows : b.count <= normalized_limit(AUTH_RATE_LIMIT)
    /\ BucketsOf(bkRows, "") = {}

\* what the finished calls answered
BucketAnswersSound ==
    \A p \in BucketProcs :
        /\ bkProc[p].retries <= 1
        /\ bkProc[p].pc = "done" /\ bkProc[p].how = "empty" => bkProc[p].result = TRUE
        /\ bkProc[p].pc = "done" /\ bkProc[p].how = "error" => bkProc[p].result = TRUE
        /\ bkProc[p].pc = "begun" /\ bkProc[p].retries > 0
              => BucketsOf(bkRows, bkProc[p].scope_key) # {}

\* C32: is_limited is atomic per scope key: under every interleaving of calls
\* for one non-empty key at most `limit` calls answer False within one window of
\* the key's bucket, the key has at most one row, the stored count never passes
\* the limit, a call that loses the creation race starts again once and ends, a
\* call with the empty key answers True, and a store error answers True.
C32_BucketAtomic ==
    /\ [](BucketTableSound /\ BucketAnswersSound)
    /\ [](\A k \in BucketKeys : bkPassed[k] <= normalized_limit(AUTH_RATE_LIMIT))
    /\ \A p \in BucketProcs : (bkProc[p].pc # "idle") ~> (bkProc[p].pc = "idle")

\* one call lost the race for creating the bucket and was then refused by the
\* full bucket, while the window of the bucket has been used up
C32_Witness ==
    \E p \in BucketProcs, k \in BucketKeys :
        /\ bkProc[p].pc = "done" /\ bkProc[p].retries = 1
        /\ bkProc[p].how = "limited" /\ bkProc[p].result = TRUE
        /\ bkPassed[k] = normalized_limit(AUTH_RATE_LIMIT)
        /\ bkCalls >= 3


-----------------------------------------------------------------------------
(* Presence ping throttling claim (C33), under SpecPing                      *)

\* the frame is a ping that comes before the touch interval has passed since the
\* last ping of the connection that was acted on
InsideInterval(p, frame) ==
    /\ frame = "ping"
    /\ prConn[p].touched >= 0
    /\ clock - prConn[p].touched < PRESENCE_TOUCH_INTERVAL

\* the step of receive touched the entry of the connection's identity
ActedOn(p) ==
    IF prConn[p].is_guest
    THEN prGuests' = touch_guest(prGuests, prConn[p].guest_ip, clock)
    ELSE prUsers' = touch_user(prUsers, prConn[p].username, clock)

\* C33: a ping is acted on (touch of last_seen) only when the touch interval has
\* passed since the last acted-on ping of the connection; a frame that is no
\* ping (other type, invalid JSON, empty) and a ping inside the interval leave
\* the stored presence maps as they are; every non-empty frame resets the idle
\* clock of the connection, an empty one does not.
C33_PingThrottle ==
    [][\A p \in PresenceConns, frame \in PresenceFrames :
          PrReceive(p, frame, MaxPingFrames) =>
              /\ frame # "ping" \/ InsideInterval(p, frame)
                    => /\ UNCHANGED <<prUsers, prGuests>>
                       /\ prConn'[p].touched = prConn[p].touched
              /\ frame = "ping" /\ ~InsideInterval(p, frame)
                    => ActedOn(p) /\ prConn'[p].touched = clock
              /\ frame # "empty" => prConn'[p].last_client_activity = mono
              /\ frame = "empty" => prConn'[p] = prConn[p]
      ]_vars

\* a connection whose ping was acted on, whose next ping inside the interval was
\* dropped, and whose ping after the interval was acted on again, its idle clock
\* reset by the last frame
C33_Witness ==
    \E p \in PresenceConns :
        /\ prConn[p].status = "open"
        /\ prConn[p].throttled >= 1
        /\ prConn[p].touched >= PRESENCE_TOUCH_INTERVAL
        /\ prConn[p].last_client_activity = mono
        /\ mono > 0
        /\ prPings = MaxPingFrames


-----------------------------------------------------------------------------
(* Snapshot read claim (C34), under SpecVisible                              *)

\* the entries of a stored map that a read at the time now keeps
KeptUsers(data, now) == {k \in DOMAIN data : data[k].present /\ visible_user(data[k], now)}

KeptGuests(data, now) == {k \in DOMAIN data : data[k].present /\ visible_guest(data[k], now)}

StoredKeys(data) == {k \in DOMAIN data : data[k].present}

\* C34: snapshot reads are self-cleaning and idempotent: after _get_online (or
\* _get_guest_count) returns at time t the stored map holds exactly the entries
\* visible at t, unchanged; the map is written back only when an entry was
\* evicted; a second read at the same time gives the same result and writes
\* nothing.
C34_SnapshotSelfCleaning ==
    [][/\ PvGetOnline =>
            /\ StoredKeys(prUsers') = KeptUsers(prUsers, clock)
            /\ \A k \in StoredKeys(prUsers') : prUsers'[k] = prUsers[k]
            /\ prLast'.wrote_users <=> StoredKeys(prUsers) # KeptUsers(prUsers, clock)
            /\ get_online(prUsers', clock) = prLast'.online
            /\ get_online_cleaned(prUsers', clock) = prUsers'
       /\ PvGetGuestCount =>
            /\ StoredKeys(prGuests') = KeptGuests(prGuests, clock)
            /\ \A k \in StoredKeys(prGuests') : prGuests'[k] = prGuests[k]
            /\ prLast'.wrote_guests <=> StoredKeys(prGuests) # KeptGuests(prGuests, clock)
            /\ get_guest_count(prGuests', clock) = prLast'.guests
            /\ get_guest_cleaned(prGuests', clock) = prGuests'
      ]_vars

\* a read of the user map that evicted alice's entry and wrote the map back, and
\* a read of the guest map that kept its entry and wrote nothing
C34_Witness ==
    /\ prLast.users_at = clock /\ prLast.wrote_users
    /\ StoredKeys(prUsers) = {} /\ prLast.online = {}
    /\ prLast.guests_at = clock /\ ~prLast.wrote_guests
    /\ StoredKeys(prGuests) # {} /\ prLast.guests = 1
    /\ clock > 0


-----------------------------------------------------------------------------
(* Presence touch claim (C35), under SpecTouch                               *)

\* the connection's last acted-on ping is at most PRESENCE_TTL old
TouchedWithinTtl(p) ==
    /\ prConn[p].touched >= 0
    /\ clock - prConn[p].touched <= PRESENCE_TTL

\* C35: a ping that is acted on makes its identity visible: the identity is in
\* every snapshot taken within PRESENCE_TTL of the touch (no disconnect of it in
\* between), whatever its entry was before the touch: absent, count > 0, or a
\* count of 0 in its grace window.
C35_TouchMakesVisible ==
    [][/\ PvGetOnline /\ TouchedWithinTtl("p1") => "alice" \in prLast'.online
       /\ PvGetGuestCount /\ TouchedWithinTtl("p2") => prLast'.guests = 1
      ]_vars


-----------------------------------------------------------------------------
(* Presence reference count claim (C36), under SpecRace                      *)

\* the count stored for an identity, 0 when it has no entry
StoredCount(data, k) == IF data[k].present THEN int_or_zero(data[k].count) ELSE 0

ConnsOfName(n) == {p \in PresenceConns : ~prConn[p].is_guest /\ prConn[p].username = n}

ConnsOfIp(ip) == {p \in PresenceConns : prConn[p].is_guest /\ prConn[p].guest_ip = ip}

Live(ps) == {p \in ps : prConn[p].status = "open"}

AllLeftGracefully(ps) ==
    /\ \E p \in ps : prConn[p].status = "closed"
    /\ \A p \in ps : prConn[p].status = "closed" /\ prConn[p].graceful

HelpersFinished == \A p \in PresenceConns : prConn[p].pc = "idle"

CountsMatch ==
    /\ \A n \in PresenceNames :
          /\ StoredCount(prUsers, n) = Cardinality(Live(ConnsOfName(n)))
          /\ Live(ConnsOfName(n)) # {} => n \in get_online(prUsers, clock)
          /\ AllLeftGracefully(ConnsOfName(n)) => n \notin get_online(prUsers, clock)
    /\ \A ip \in PresenceIps :
          /\ StoredCount(prGuests, ip) = Cardinality(Live(ConnsOfIp(ip)))
          /\ Live(ConnsOfIp(ip)) # {} => prGuests[ip].present
          /\ AllLeftGracefully(ConnsOfIp(ip)) => ~prGuests[ip].present

\* C36 as claimed: after any interleaving of connects, disconnects and snapshot
\* reads of different connections has finished, with no TTL expiry, every
\* identity's stored count equals the number of its live connections; an
\* identity with a live connection is online and one whose connections all
\* closed gracefully is not.
C36_RefCountUnderRaces == HelpersFinished => CountsMatch

NoLostUpdate == \A p \in PresenceConns : ~prConn[p].raced

\* C36 as amended: the same, for the interleavings in which no helper stored a
\* map made from a copy that another connection had replaced meanwhile.
C36_RefCountWithoutLostUpdate == HelpersFinished /\ NoLostUpdate => CountsMatch

\* two connections of alice whose helpers ran side by side without a lost
\* update, both connected and counted
C36_Witness ==
    /\ HelpersFinished /\ NoLostUpdate
    /\ Live(ConnsOfName("alice")) = PresenceConns
    /\ StoredCount(prUsers, "alice") = 2
    /\ prLast.online = {"alice"}


-----------------------------------------------------------------------------
(* Presence disconnect claim (C37), under SpecPresence                       *)

\* no stored count is below 0
CountsNotNegative ==
    /\ \A n \in PresenceNames : prUsers[n].present => int_or_zero(prUsers[n].count) >= 0
    /\ \A ip \in PresenceIps : prGuests[ip].present => int_or_zero(prGuests[ip].count) >= 0

\* C37: a presence disconnect never creates an entry and never makes a count
\* negative: when the identity of the closing connection has no stored entry
\* (a snapshot read evicted it), it has none after the disconnect and the online
\* list and the guest count are what a snapshot gave before it, for users and for
\* guests, for graceful and other close codes.
C37_DisconnectCreatesNothing ==
    [][\A p \in PresenceConns, close_code \in CloseCodes :
          PrDisconnect(p, close_code) =>
              /\ CountsNotNegative'
              /\ ~prConn[p].is_guest /\ ~prUsers[prConn[p].username].present
                    => /\ ~prUsers'[prConn[p].username].present
                       /\ prLast'.online = get_online(prUsers, clock)
              /\ (/\ prConn[p].is_guest
                  /\ prConn[p].guest_ip # NoIp
                  /\ ~prGuests[prConn[p].guest_ip].present)
                    => /\ ~prGuests'[prConn[p].guest_ip].present
                       /\ prLast'.guests = get_guest_count(prGuests, clock)
      ]_vars


-----------------------------------------------------------------------------
(* Message order claim (C38), under SpecOrder                                *)

\* the stored messages that the chat events of connection d stand for, in the
\* order in which d got them
ReceivedBy(d) == [k \in 1..Len(ChatEventsOf(d)) |-> StoredAs(ChatEventsOf(d)[k])]

\* the places of message m in seq
PlacesOf(seq, m) == {k \in 1..Len(seq) : seq[k] = m}

\* the two messages, each stored once and received once by d, reached d in the
\* order of their message ids
InStoredOrder(d, i, j) ==
    LET got == ReceivedBy(d)
        first == messages[i]
        second == messages[j]
    IN  /\ PlacesOf(messages, first) = {i} /\ PlacesOf(messages, second) = {j}
        /\ Cardinality(PlacesOf(got, first)) = 1
        /\ Cardinality(PlacesOf(got, second)) = 1
        => \A a \in PlacesOf(got, first), b \in PlacesOf(got, second) : a < b

IsTailOf(s, t) == Len(s) <= Len(t) /\ s = SubSeq(t, Len(t) - Len(s) + 1, Len(t))

-----------------------------------------------------------------------------
(* Direct-start role claim (C39), under SpecDirect                           *)

\* the ChatRole rows of user u in the room
RoleRowsOf(room, u) == {row \in roleRows : row.room = room.slug /\ row.user = u}

\* the rooms direct_start has created
StartedRooms == {room \in rooms : room.kind = DIRECT /\ room.created_by # 0}

NoStartInFlight == \A r \in DsRequests : dsReq[r].pc = "idle"

\* C39: after any interleaving of direct-start requests of the two users of a
\* pair (both at once, or one between the other's room creation and role
\* assignment) the room's creator holds OWNER, the other participant MEMBER, each
\* (room, user) has exactly one role row, and both pass can_read and can_write.
C39_CreatorOwnsDirectRoom ==
    NoStartInFlight =>
        \A room \in StartedRooms :
            /\ get_user_role(roleRows, room, AuthUser(room.created_by)) = OWNER
            /\ \A u \in pair_user_ids(room) :
                  /\ u # room.created_by
                        => get_user_role(roleRows, room, AuthUser(u)) = MEMBER
                  /\ Cardinality(RoleRowsOf(room, u)) = 1
                  /\ can_read(roleRows, room, AuthUser(u))
                  /\ can_write(roleRows, room, AuthUser(u))


-----------------------------------------------------------------------------
(* C40: the inbox targets of a direct message and the access of the users *)

\* SpecTargets: SpecInbox with an administrator who edits the role of user 2
\* in the direct room
TgNext ==
    \/ InNext
    \/ \E row \in roleRows, role \in Roles : row.room = DirectSlug /\ SetRole(row, role)

SpecTargets == InitActive /\ [][TgNext]_vars

\* connection c finishes _build_direct_inbox_targets and its sends in this step
BuildsTargets(c) == conn[c].pc = "targets" /\ conn'[c].pc = "idle"

\* user u's inbox group is sent an update in this step (its unread state is
\* written in the same step)
Targeted(u) == ibSent'[u] = ibSent[u] + 1

\* the role rows of user u in the room with this slug
RowsIn(slug, u) == {row \in roleRows : row.room = slug /\ row.user = u}

\* C40: when a message of a direct room whose pair key parses is fanned out to
\* the inboxes, every targeted user is one of the two users of the pair key and
\* holds no BLOCKED role in the room; a user of the pair key without a role
\* row is targeted; a user outside the pair key is not targeted, whatever
\* role row they hold
C40_TargetsRespectAccess ==
    [][\A c \in Conns :
          LET room == room_by_slug(rooms, conn[c].room.slug)
              pair == IF room = NoRoom THEN {} ELSE pair_user_ids(room)
          IN  (BuildsTargets(c) /\ room # NoRoom /\ room.kind = DIRECT /\ pair # {}) =>
                 \A u \in InboxUserIds :
                    /\ Targeted(u) =>
                          /\ u \in pair
                          /\ \A row \in RowsIn(room.slug, u) : row.role # BLOCKED
                    /\ (u \in pair /\ RowsIn(room.slug, u) = {}) => Targeted(u)
                    /\ u \notin pair => ~Targeted(u)]_vars

====
